---- MODULE Spec2Model ----
(***************************************************************************)
(* Model of the suggest-mode diff engine of the critique editor:           *)
(*   - blockDiffUtils.js  : getBlockText, getBlockSignature, computeLCS,   *)
(*                          computeBlockDiffs, computeWordDiff             *)
(*   - DiffHighlightExtension.js : the ProseMirror plugin state (apply)    *)
(*                          and buildDecorations                           *)
(*   - Editor.jsx         : the effect that syncs blockDiffs / mode into   *)
(*                          the extension storage                          *)
(* Texts are sequences of one-character strings.  Positions and indices    *)
(* in diff records are 0-based, as in the JavaScript code.                 *)
(***************************************************************************)
EXTENDS Integers, Sequences, FiniteSets, TLC

VARIABLES
    pc,              \* position of the modelled call / component
    originalBlocks,  \* argument `originalBlocks` of computeBlockDiffs (nullable)
    currentBlocks,   \* argument `currentBlocks` of computeBlockDiffs (nullable)
    diffs,           \* value returned by computeBlockDiffs
    originalText,    \* argument `originalText` of computeWordDiff
    currentText,     \* argument `currentText` of computeWordDiff
    wordDiffs,       \* value returned by computeWordDiff
    mode,            \* prop `mode` of Editor ('edit' | 'suggest')
    blockDiffsProp,  \* prop `blockDiffs` of Editor (nullable)
    effectPending,   \* the diff highlight sync effect of Editor is scheduled
    storage,         \* extension.storage: {blockDiffs, enabled}
    decorations,     \* the plugin state: the DecorationSet
    tr,              \* the transaction last applied: {meta, docChanged}
    edits,           \* number of document changes so far
    matches,         \* value returned by computeLCS
    blockArg,        \* argument `block` of getBlockText / `blockNode` of collectTextNodes
    blockText,       \* outcome of getBlockText: the text returned, or a TypeError
    textIndexArg,    \* argument `textIndex` of findDocPosition
    docPos,          \* value returned by findDocPosition
    originalMarkdown,\* useSuggestMode state `originalMarkdown` (nullable)
    pendingMarkdown, \* useSuggestMode state `pendingMarkdown` (nullable)
    comments,        \* useSuggestMode state `comments` (their number)
    closure,         \* the state values the callbacks of the last render captured
    saveTimeout,     \* saveTimeoutRef.current: the scheduled annotation save, if any
    annotations,     \* the annotations the server holds for the file
    awaiting,        \* the async callbacks suspended at their await
    fileContent,     \* the markdown the server holds for the file
    filename,        \* argument `filename` of useSuggestMode (nullable)
    loading,         \* useSuggestMode state `loading`
    lastCall         \* per file, the payload of the last saveAnnotations call made for it

vars == <<pc, originalBlocks, currentBlocks, diffs, originalText, currentText, wordDiffs,
          mode, blockDiffsProp, effectPending, storage, decorations, tr, edits,
          matches, blockArg, blockText, textIndexArg, docPos,
          originalMarkdown, pendingMarkdown, comments, closure, saveTimeout,
          annotations, awaiting, fileContent, filename, loading, lastCall>>

\* the variable of the computeLCS call
lcsVars == <<matches>>
\* the variables of the getBlockText and findDocPosition calls
textVars == <<blockArg, blockText, textIndexArg, docPos>>
\* the variables of the useSuggestMode hook
hookVars == <<originalMarkdown, pendingMarkdown, comments, closure, saveTimeout,
              annotations, awaiting, fileContent, filename, loading, lastCall>>

\* the variables of the editor view: Editor props, extension storage, plugin state
pluginVars == <<mode, blockDiffsProp, effectPending, storage, decorations, tr, edits>>

\* the variables of the computeWordDiff call
wordVars == <<originalText, currentText, wordDiffs>>
\* the variables of the computeBlockDiffs call
blockVars == <<originalBlocks, currentBlocks, diffs>>

-----------------------------------------------------------------------------
(* Bounds and the finite universe of inputs                                *)

\* longest block sequence handed to computeBlockDiffs
MaxBlocks == 3

\* longest text (in characters) handed to computeWordDiff
MaxTextLen == 4

\* longest document the editor holds
MaxDocBlocks == 2

\* most document changes in one run of the editor
MaxEdits == 2

\* most items in the content array handed to getBlockText
MaxItems == 2

\* most comments added in one run of the hook
MaxComments == 1

\* most segments of a word diff handed to buildInlineDecorations
MaxSegments == 3

\* longest text of a segment and of a text run of the inline runs
MaxSegLen == 2

\* the characters texts are written in
Chars == {"a", "b", " "}

\* JavaScript null / undefined
Null == "null"

\* block ids; IdOrder lists them in the order a fresh document numbers them
IdOrder == <<"a", "b", "c", "d">>
Ids == {IdOrder[i] : i \in 1..Len(IdOrder)}

\* the ids of a block sequence
IdsOfBlocks(blocks) == {blocks[k].id : k \in 1..Len(blocks)}

Min(x, y) == IF x < y THEN x ELSE y
Max(x, y) == IF x > y THEN x ELSE y

\* a nullable array argument: JS `null` or an array
NullArg == [null |-> TRUE, v |-> <<>>]
Arr(s) == [null |-> FALSE, v |-> s]

\* an inline content item {type: "text", text: s}
Txt(s) == [kind |-> "object", type |-> "text", text |-> s]
\* an inline content item that is a bare string
Str(s) == [kind |-> "string", type |-> Null, text |-> s]

-----------------------------------------------------------------------------
(* blockDiffUtils.js                                                       *)

RECURSIVE Join(_)
\* Array.prototype.join('') over a sequence of texts
Join(ss) == IF ss = <<>> THEN <<>> ELSE Head(ss) \o Join(Tail(ss))

\* the callback of content.map in getBlockText
ItemText(item) ==
    IF item.kind = "string" THEN item.text
    ELSE IF item.type = "text" THEN item.text
    ELSE IF item.text # <<>> THEN item.text
    ELSE <<>>

\* getBlockText(block): content array joined, else the direct text property
getBlockText(block) ==
    IF block.isArray
    THEN Join([k \in 1..Len(block.content) |-> ItemText(block.content[k])])
    ELSE block.text

\* the callback of content.map reads item.type of an item that is null or
\* undefined: a TypeError
ItemTextThrows(item) == item.kind = "null"

\* the outcome of getBlockText(block) for a nullable block: the text returned,
\* or the TypeError of the map callback
getBlockTextOutcome(blockOrNull) ==
    IF blockOrNull.null THEN [raised |-> FALSE, value |-> <<>>]
    ELSE IF /\ blockOrNull.v.isArray
            /\ \E k \in 1..Len(blockOrNull.v.content) :
                   ItemTextThrows(blockOrNull.v.content[k])
         THEN [raised |-> TRUE, value |-> <<>>]
    ELSE [raised |-> FALSE, value |-> getBlockText(blockOrNull.v)]

\* the signature of the position+type fallback: the type without the text
getBlockSignatureTypeOnly(block) == <<block.type, ":">>

\* getBlockSignature(block): `${block.type}:${getBlockText(block)}`
getBlockSignature(block) == <<block.type, ":">> \o getBlockText(block)

\* the DP table of computeLCS: dp[i][j] = LCS length of original[0..i) and current[0..j)
LCSTable(original, current) ==
    LET dp[i \in 0..Len(original), j \in 0..Len(current)] ==
            IF i = 0 \/ j = 0 THEN 0
            ELSE IF getBlockSignature(original[i]) = getBlockSignature(current[j])
                 THEN dp[i - 1, j - 1] + 1
                 ELSE Max(dp[i - 1, j], dp[i, j - 1])
    IN dp

RECURSIVE BacktrackSkipSmaller(_, _, _, _, _)
\* Backtrack with the comparison reversed (`<` for `>`): walks towards the
\* smaller sub-problem
BacktrackSkipSmaller(original, current, dp, i, j) ==
    IF ~(i > 0 /\ j > 0) THEN <<>>
    ELSE IF getBlockSignature(original[i]) = getBlockSignature(current[j])
         THEN Append(BacktrackSkipSmaller(original, current, dp, i - 1, j - 1),
                     <<i - 1, j - 1>>)
    ELSE IF dp[i - 1, j] < dp[i, j - 1]
         THEN BacktrackSkipSmaller(original, current, dp, i - 1, j)
    ELSE BacktrackSkipSmaller(original, current, dp, i, j - 1)

RECURSIVE BacktrackPush(_, _, _, _, _)
\* Backtrack appending each pair behind the ones found later (matches.push for
\* matches.unshift)
BacktrackPush(original, current, dp, i, j) ==
    IF ~(i > 0 /\ j > 0) THEN <<>>
    ELSE IF getBlockSignature(original[i]) = getBlockSignature(current[j])
         THEN <<(<<i - 1, j - 1>>)>> \o BacktrackPush(original, current, dp, i - 1, j - 1)
    ELSE IF dp[i - 1, j] > dp[i, j - 1]
         THEN BacktrackPush(original, current, dp, i - 1, j)
    ELSE BacktrackPush(original, current, dp, i, j - 1)

RECURSIVE BacktrackTieSkipsOriginal(_, _, _, _, _)
\* Backtrack skipping the original side on ties too (`>=` for `>`)
BacktrackTieSkipsOriginal(original, current, dp, i, j) ==
    IF ~(i > 0 /\ j > 0) THEN <<>>
    ELSE IF getBlockSignature(original[i]) = getBlockSignature(current[j])
         THEN Append(BacktrackTieSkipsOriginal(original, current, dp, i - 1, j - 1),
                     <<i - 1, j - 1>>)
    ELSE IF dp[i - 1, j] >= dp[i, j - 1]
         THEN BacktrackTieSkipsOriginal(original, current, dp, i - 1, j)
    ELSE BacktrackTieSkipsOriginal(original, current, dp, i, j - 1)

RECURSIVE Backtrack(_, _, _, _, _)
\* the backtracking loop of computeLCS from cell (i, j); pairs are 0-based
\* [origIdx, currIdx] and come out in increasing order (matches.unshift)
Backtrack(original, current, dp, i, j) ==
    IF ~(i > 0 /\ j > 0) THEN <<>>
    ELSE IF getBlockSignature(original[i]) = getBlockSignature(current[j])
         THEN Append(Backtrack(original, current, dp, i - 1, j - 1), <<i - 1, j - 1>>)
    ELSE IF dp[i - 1, j] > dp[i, j - 1]
         THEN Backtrack(original, current, dp, i - 1, j)
    ELSE Backtrack(original, current, dp, i, j - 1)

\* computeLCS(original, current)
computeLCS(original, current) ==
    Backtrack(original, current, LCSTable(original, current),
              Len(original), Len(current))

\* Map.get on `new Map(blocks.map((b, idx) => [b.id, {block: b, idx}]))`:
\* a later entry with the same key replaces the earlier one.  1-based, 0 = undefined
MapGet(blocks, id) ==
    LET hits == {k \in 1..Len(blocks) : blocks[k].id = id}
    IN IF hits = {} THEN 0 ELSE CHOOSE k \in hits : \A h \in hits : h <= k

\* iteration order of that Map: keys in order of first insertion
MapKeys(blocks) ==
    LET firsts == {k \in 1..Len(blocks) : \A h \in 1..(k - 1) : blocks[h].id # blocks[k].id}
        ord == SelectSeq([k \in 1..Len(blocks) |-> k], LAMBDA k : k \in firsts)
    IN [n \in 1..Len(ord) |-> blocks[ord[n]].id]

\* pass 1: the ids of currentById that originalById also holds, in iteration order
Pass1Ids(original, current) ==
    SelectSeq(MapKeys(current), LAMBDA id : MapGet(original, id) # 0)

\* Pass1Diff comparing the content arrays by reference, which never holds
\* across two documents: every identity match is 'modified'
Pass1DiffByReference(original, current, id) ==
    LET orig == original[MapGet(original, id)]
        currIdx == MapGet(current, id)
    IN [type |-> "modified", blockId |-> id, originalText |-> getBlockText(orig),
        currentText |-> getBlockText(current[currIdx]), position |-> currIdx - 1]

\* Pass1Diff taking position from the original side (orig.idx for currIdx)
Pass1DiffOriginalPosition(original, current, id) ==
    LET origIdx == MapGet(original, id)
        orig == original[origIdx]
        curr == current[MapGet(current, id)]
        origText == getBlockText(orig)
        currText == getBlockText(curr)
    IN IF origText = currText /\ orig.type = curr.type
       THEN [type |-> "unchanged", blockId |-> id, position |-> origIdx - 1]
       ELSE [type |-> "modified", blockId |-> id, originalText |-> origText,
             currentText |-> currText, position |-> origIdx - 1]

\* pass 1: the diff pushed for one id present in both maps
Pass1Diff(original, current, id) ==
    LET orig == original[MapGet(original, id)]
        currIdx == MapGet(current, id)
        curr == current[currIdx]
        origText == getBlockText(orig)
        currText == getBlockText(curr)
    IN IF origText = currText /\ orig.type = curr.type
       THEN [type |-> "unchanged", blockId |-> id, position |-> currIdx - 1]
       ELSE [type |-> "modified", blockId |-> id, originalText |-> origText,
             currentText |-> currText, position |-> currIdx - 1]

\* matchedOriginal / matchedCurrent after pass 1 (1-based indices)
Pass1MatchedOriginal(original, current) ==
    {MapGet(original, Pass1Ids(original, current)[n]) :
        n \in 1..Len(Pass1Ids(original, current))}
Pass1MatchedCurrent(original, current) ==
    {MapGet(current, Pass1Ids(original, current)[n]) :
        n \in 1..Len(Pass1Ids(original, current))}

\* blocks.map((b, i) => ({block: b, idx: i})).filter(({idx}) => !matched.has(idx)):
\* the 1-based indices left unmatched, in order
Unmatched(blocks, matched) ==
    SelectSeq([k \in 1..Len(blocks) |-> k], LAMBDA k : k \notin matched)

BlocksAt(blocks, idxs) == [n \in 1..Len(idxs) |-> blocks[idxs[n]]]

\* pass 2: lcsMatches over the leftovers; the else branch runs no LCS
LcsMatches(original, current) ==
    LET unmatchedOriginal == Unmatched(original, Pass1MatchedOriginal(original, current))
        unmatchedCurrent == Unmatched(current, Pass1MatchedCurrent(original, current))
    IN IF Len(unmatchedOriginal) > 0 /\ Len(unmatchedCurrent) > 0
       THEN computeLCS(BlocksAt(original, unmatchedOriginal),
                       BlocksAt(current, unmatchedCurrent))
       ELSE <<>>

\* matchedOriginal without the additions of pass 2 (line 130 left out)
MatchedOriginalPass1Only(original, current) == Pass1MatchedOriginal(original, current)

\* matchedOriginal after pass 2 (1-based indices into originalBlocks)
MatchedOriginal(original, current) ==
    LET unmatchedOriginal == Unmatched(original, Pass1MatchedOriginal(original, current))
        lcs == LcsMatches(original, current)
    IN Pass1MatchedOriginal(original, current)
         \cup {unmatchedOriginal[lcs[n][1] + 1] : n \in 1..Len(lcs)}

\* matchedCurrent after pass 2 (1-based indices into currentBlocks)
MatchedCurrent(original, current) ==
    LET unmatchedCurrent == Unmatched(current, Pass1MatchedCurrent(original, current))
        lcs == LcsMatches(original, current)
    IN Pass1MatchedCurrent(original, current)
         \cup {unmatchedCurrent[lcs[n][2] + 1] : n \in 1..Len(lcs)}

\* pass 1 diffs, in push order
Pass1Diffs(original, current) ==
    [n \in 1..Len(Pass1Ids(original, current)) |->
        Pass1Diff(original, current, Pass1Ids(original, current)[n])]

\* Pass2Diffs without the else branch: leftover current blocks are reported
\* 'added' only when the LCS ran
Pass2DiffsNoElse(original, current) ==
    LET unmatchedOriginal == Unmatched(original, Pass1MatchedOriginal(original, current))
        unmatchedCurrent == Unmatched(current, Pass1MatchedCurrent(original, current))
        lcs == LcsMatches(original, current)
        unchanged == [n \in 1..Len(lcs) |->
            LET currIdx == unmatchedCurrent[lcs[n][2] + 1]
            IN [type |-> "unchanged", blockId |-> current[currIdx].id,
                position |-> currIdx - 1]]
        left == SelectSeq(unmatchedCurrent,
                          LAMBDA k : k \notin MatchedCurrent(original, current))
        added == [n \in 1..Len(left) |->
            [type |-> "added", blockId |-> current[left[n]].id,
             currentText |-> getBlockText(current[left[n]]), position |-> left[n] - 1]]
    IN IF Len(unmatchedOriginal) > 0 /\ Len(unmatchedCurrent) > 0
       THEN unchanged \o added
       ELSE <<>>

\* Pass2Diffs taking position from the leftover list (the local index for curr.idx)
Pass2DiffsLocalPosition(original, current) ==
    LET unmatchedCurrent == Unmatched(current, Pass1MatchedCurrent(original, current))
        lcs == LcsMatches(original, current)
        unchanged == [n \in 1..Len(lcs) |->
            [type |-> "unchanged", blockId |-> current[unmatchedCurrent[lcs[n][2] + 1]].id,
             position |-> lcs[n][2]]]
        local == SelectSeq([k \in 1..Len(unmatchedCurrent) |-> k],
                    LAMBDA k : unmatchedCurrent[k] \notin MatchedCurrent(original, current))
        added == [n \in 1..Len(local) |->
            [type |-> "added", blockId |-> current[unmatchedCurrent[local[n]]].id,
             currentText |-> getBlockText(current[unmatchedCurrent[local[n]]]),
             position |-> local[n] - 1]]
    IN unchanged \o added

\* pass 2: one 'unchanged' diff per LCS pair, then the 'added' diffs
Pass2Diffs(original, current) ==
    LET unmatchedCurrent == Unmatched(current, Pass1MatchedCurrent(original, current))
        lcs == LcsMatches(original, current)
        unchanged == [n \in 1..Len(lcs) |->
            LET currIdx == unmatchedCurrent[lcs[n][2] + 1]
            IN [type |-> "unchanged", blockId |-> current[currIdx].id,
                position |-> currIdx - 1]]
        left == SelectSeq(unmatchedCurrent,
                          LAMBDA k : k \notin MatchedCurrent(original, current))
        added == [n \in 1..Len(left) |->
            [type |-> "added", blockId |-> current[left[n]].id,
             currentText |-> getBlockText(current[left[n]]), position |-> left[n] - 1]]
    IN unchanged \o added

\* FindCurrMatch by identity only (the signature alternative left out)
FindCurrMatchByIdOnly(current, origBlock) ==
    LET hits == {k \in 1..Len(current) : current[k].id = origBlock.id}
    IN IF hits = {} THEN 0 ELSE CHOOSE k \in hits : \A h \in hits : k <= h

\* currentBlocks.find(c => c.id === origBlock.id ||
\*                         getBlockSignature(c) === getBlockSignature(origBlock));
\* 1-based index of the first hit, 0 = undefined
FindCurrMatch(current, origBlock) ==
    LET hits == {k \in 1..Len(current) :
                    \/ current[k].id = origBlock.id
                    \/ getBlockSignature(current[k]) = getBlockSignature(origBlock)}
    IN IF hits = {} THEN 0 ELSE CHOOSE k \in hits : \A h \in hits : k <= h

RECURSIVE ScanAfterBlockId(_, _, _, _)
\* pass 3: the loop `for (let j = i - 1; j >= 0; j--)` from 1-based index j down
ScanAfterBlockId(original, current, matched, j) ==
    IF j < 1 THEN Null
    ELSE IF j \in matched /\ FindCurrMatch(current, original[j]) # 0
         THEN current[FindCurrMatch(current, original[j])].id
    ELSE ScanAfterBlockId(original, current, matched, j - 1)

\* pass 3: the 'deleted' diffs, in original order
Pass3Diffs(original, current) ==
    LET matched == MatchedOriginal(original, current)
        gone == Unmatched(original, matched)
    IN [n \in 1..Len(gone) |->
          [type |-> "deleted", blockId |-> original[gone[n]].id,
           originalText |-> getBlockText(original[gone[n]]),
           originalType |-> original[gone[n]].type,
           position |-> gone[n] - 1,
           afterBlockId |-> ScanAfterBlockId(original, current, matched, gone[n] - 1)]]

\* computeBlockDiffs without the guard on null arguments
computeBlockDiffsUnguarded(original, current) ==
    Pass1Diffs(original.v, current.v)
      \o Pass2Diffs(original.v, current.v)
      \o Pass3Diffs(original.v, current.v)

\* computeBlockDiffs(originalBlocks, currentBlocks)
computeBlockDiffs(original, current) ==
    IF original.null \/ current.null THEN <<>>
    ELSE Pass1Diffs(original.v, current.v)
           \o Pass2Diffs(original.v, current.v)
           \o Pass3Diffs(original.v, current.v)

-----------------------------------------------------------------------------
(* Inputs of computeBlockDiffs                                             *)

\* a block {id, type, content: [...]}
Block(id, type, content) ==
    [id |-> id, type |-> type, isArray |-> TRUE, content |-> content, text |-> <<>>]

\* the (type, content) shapes blocks are drawn from
BlockKinds ==
    { [type |-> "paragraph", content |-> <<Txt(<<"a">>)>>],
      [type |-> "paragraph", content |-> <<Txt(<<"a">>), Txt(<<" ">>), Str(<<"b">>)>>],
      [type |-> "heading",   content |-> <<Txt(<<"a">>)>>] }

\* block sequences of length n whose k-th block has id ids[k]
BlocksWithIds(ids) ==
    { [k \in 1..Len(ids) |-> Block(ids[k], f[k].type, f[k].content)] :
        f \in [1..Len(ids) -> BlockKinds] }

\* id sequences without repetition, of length at most MaxBlocks
IdSeqs ==
    UNION { {s \in [1..n -> Ids] : \A i, j \in 1..n : i # j => s[i] # s[j]} :
              n \in 0..Min(MaxBlocks, Len(IdOrder)) }

\* snapshots: a document numbers its blocks in IdOrder
Originals ==
    UNION { BlocksWithIds(SubSeq(IdOrder, 1, n)) : n \in 0..Min(MaxBlocks, Len(IdOrder)) }

\* live documents: any ids without repetition (kept, reordered or fresh)
Currents == UNION { BlocksWithIds(s) : s \in IdSeqs }

\* addStorage(): {blockDiffs: [], enabled: false}
addStorage == [blockDiffs |-> Arr(<<>>), enabled |-> FALSE]

\* the editor view before any transaction: state.init() is DecorationSet.empty
PluginIdle ==
    /\ mode = "edit"
    /\ blockDiffsProp = NullArg
    /\ effectPending = FALSE
    /\ storage = addStorage
    /\ decorations = <<>>
    /\ tr = [meta |-> FALSE, docChanged |-> FALSE]
    /\ edits = 0

\* no computeLCS, getBlockText or findDocPosition call is modelled
CallsIdle ==
    /\ matches = <<>>
    /\ blockArg = NullArg
    /\ blockText = <<>>
    /\ textIndexArg = 0
    /\ docPos = 0

\* the hook is not modelled
HookIdle ==
    /\ originalMarkdown = NullArg
    /\ pendingMarkdown = NullArg
    /\ comments = 0
    /\ closure = NullArg
    /\ saveTimeout = NullArg
    /\ annotations = NullArg
    /\ awaiting = {}
    /\ fileContent = NullArg
    /\ filename = NullArg
    /\ loading = FALSE
    /\ lastCall = <<>>

-----------------------------------------------------------------------------
(* The call computeBlockDiffs(originalBlocks, currentBlocks)               *)

Init ==
    /\ pc = "start"
    /\ \/ originalBlocks \in {Arr(s) : s \in Originals} /\ currentBlocks \in {Arr(s) : s \in Currents}
       \/ originalBlocks = NullArg /\ currentBlocks \in {Arr(s) : s \in Originals}
       \/ originalBlocks \in {Arr(s) : s \in Originals} /\ currentBlocks = NullArg
    /\ diffs = <<>>
    /\ originalText = <<>> /\ currentText = <<>> /\ wordDiffs = <<>>
    /\ PluginIdle
    /\ CallsIdle /\ HookIdle

ComputeBlockDiffs ==
    /\ pc = "start"
    /\ diffs' = computeBlockDiffs(originalBlocks, currentBlocks)
    /\ pc' = "done"
    /\ UNCHANGED <<originalBlocks, currentBlocks, wordVars, pluginVars>>
    /\ UNCHANGED <<lcsVars, textVars, hookVars>>

Next == ComputeBlockDiffs

Spec == Init /\ [][Next]_vars

\* the call with two arrays: a snapshot and a live document
InitMatching ==
    /\ pc = "start"
    /\ originalBlocks \in {Arr(s) : s \in Originals}
    /\ currentBlocks \in {Arr(s) : s \in Currents}
    /\ diffs = <<>>
    /\ originalText = <<>> /\ currentText = <<>> /\ wordDiffs = <<>>
    /\ PluginIdle
    /\ CallsIdle /\ HookIdle

SpecMatching == InitMatching /\ [][Next]_vars

-----------------------------------------------------------------------------
(* computeWordDiff.  Diff.diffWords is the word diff of the npm package    *)
(* `diff` (jsdiff), which the repository imports and does not contain.  It *)
(* is modelled by its documented behaviour: the texts are split into word  *)
(* and whitespace tokens, whitespace is ignored when tokens are compared,  *)
(* the change objects form a shortest edit script with removals before     *)
(* insertions, and the value of a common part is taken from the new text.  *)
(* Which shortest script is returned when several exist is left open, so   *)
(* the model returns the set of all of them.                               *)

IsSpace(ch) == ch = " "

RECURSIVE Tokenize(_)
\* the tokens of a text: maximal runs of word characters and of whitespace
Tokenize(text) ==
    IF text = <<>> THEN <<>>
    ELSE LET rest == Tokenize(Tail(text))
         IN IF rest # <<>> /\ IsSpace(Head(rest)[1]) = IsSpace(Head(text))
            THEN <<(<<Head(text)>> \o Head(rest))>> \o Tail(rest)
            ELSE <<(<<Head(text)>>)>> \o rest

\* a token made of whitespace only
IsBlankToken(tok) == \A k \in 1..Len(tok) : IsSpace(tok[k])

\* token comparison of diffWords: equal, or both whitespace (ignoreWhitespace)
TokenEquals(left, right) ==
    left = right \/ (IsBlankToken(left) /\ IsBlankToken(right))

\* common[i, j]: the most tokens old[i..] and new[j..] can have in common
CommonTable(old, new) ==
    LET common[i \in 1..(Len(old) + 1), j \in 1..(Len(new) + 1)] ==
            IF i > Len(old) \/ j > Len(new) THEN 0
            ELSE IF TokenEquals(old[i], new[j])
                 THEN common[i + 1, j + 1] + 1
                 ELSE Max(common[i + 1, j], common[i, j + 1])
    IN common

RECURSIVE EditScripts(_, _, _, _, _, _)
\* the shortest edit scripts turning old[i..] into new[j..], one change object
\* per token; within a change the removed tokens come before the added ones
\* (afterAdd: the previous change object was an insertion)
EditScripts(old, new, common, i, j, afterAdd) ==
    IF i > Len(old) /\ j > Len(new) THEN {<<>>}
    ELSE
      (IF i <= Len(old) /\ j <= Len(new) /\ TokenEquals(old[i], new[j])
          /\ common[i, j] = common[i + 1, j + 1] + 1
       THEN {<<[added |-> FALSE, removed |-> FALSE, value |-> new[j]]>> \o s :
                s \in EditScripts(old, new, common, i + 1, j + 1, FALSE)}
       ELSE {})
      \cup
      (IF i <= Len(old) /\ ~afterAdd /\ common[i, j] = common[i + 1, j]
       THEN {<<[added |-> FALSE, removed |-> TRUE, value |-> old[i]]>> \o s :
                s \in EditScripts(old, new, common, i + 1, j, FALSE)}
       ELSE {})
      \cup
      (IF j <= Len(new) /\ common[i, j] = common[i, j + 1]
       THEN {<<[added |-> TRUE, removed |-> FALSE, value |-> new[j]]>> \o s :
                s \in EditScripts(old, new, common, i, j + 1, TRUE)}
       ELSE {})

RECURSIVE MergeChanges(_)
\* consecutive change objects of the same kind are joined into one
MergeChanges(script) ==
    IF Len(script) <= 1 THEN script
    ELSE LET rest == MergeChanges(Tail(script))
             h == Head(script)
         IN IF h.added = Head(rest).added /\ h.removed = Head(rest).removed
            THEN <<[added |-> h.added, removed |-> h.removed,
                    value |-> h.value \o Head(rest).value]>> \o Tail(rest)
            ELSE <<h>> \o rest

\* Diff.diffWords(oldStr, newStr): the change lists it may return
diffWords(oldStr, newStr) ==
    LET old == Tokenize(oldStr)
        new == Tokenize(newStr)
    IN {MergeChanges(s) : s \in EditScripts(old, new, CommonTable(old, new), 1, 1, FALSE)}

\* changes.map(part => ({type: ..., value: part.value}))
SegmentsOf(changes) ==
    [k \in 1..Len(changes) |->
        [type |-> IF changes[k].added THEN "insert"
                  ELSE IF changes[k].removed THEN "delete" ELSE "equal",
         value |-> changes[k].value]]

\* computeWordDiff(originalText, currentText): the segment lists it may return
\* (one list, unless diffWords has several shortest scripts to choose from)
computeWordDiff(original, current) ==
    IF original = <<>> /\ current = <<>> THEN {<<>>}
    ELSE IF original = <<>> THEN {<<[type |-> "insert", value |-> current]>>}
    ELSE IF current = <<>> THEN {<<[type |-> "delete", value |-> original]>>}
    ELSE {SegmentsOf(changes) : changes \in diffWords(original, current)}

\* texts of at most MaxTextLen characters
Texts == UNION {[1..n -> Chars] : n \in 0..MaxTextLen}

InitWord ==
    /\ pc = "start"
    /\ originalText \in Texts
    /\ currentText \in Texts
    /\ wordDiffs = <<>>
    /\ originalBlocks = NullArg /\ currentBlocks = NullArg /\ diffs = <<>>
    /\ PluginIdle
    /\ CallsIdle /\ HookIdle

ComputeWordDiff ==
    /\ pc = "start"
    /\ wordDiffs' \in computeWordDiff(originalText, currentText)
    /\ pc' = "done"
    /\ UNCHANGED <<originalText, currentText, blockVars, pluginVars>>
    /\ UNCHANGED <<lcsVars, textVars, hookVars>>

NextWord == ComputeWordDiff

SpecWord == InitWord /\ [][NextWord]_vars

-----------------------------------------------------------------------------
(* DiffHighlightExtension.js.  The live document is the editor's block     *)
(* list; each block is one ProseMirror block node carrying attrs.id, with  *)
(* one content node holding one text node per non-empty inline item.       *)
(* A decoration set is modelled by the list DecorationSet.create is given. *)

\* the text nodes of a block: its non-empty inline items
RunsOf(block) ==
    SelectSeq([k \in 1..Len(block.content) |-> ItemText(block.content[k])],
              LAMBDA t : t # <<>>)

RECURSIVE SumLen(_, _)
\* total length of the first n texts of a sequence
SumLen(texts, n) == IF n = 0 THEN 0 ELSE SumLen(texts, n - 1) + Len(texts[n])

\* node.nodeSize of a block node: two tokens for the block, two for its content
NodeSize(block) == 4 + SumLen(RunsOf(block), Len(RunsOf(block)))

RECURSIVE BlockPos(_, _)
\* pos of the k-th block node in doc.descendants (the block group opens at 0)
BlockPos(doc, k) == IF k = 1 THEN 1 ELSE BlockPos(doc, k - 1) + NodeSize(doc[k - 1])

\* collectTextNodes(blockNode, blockPos): {from, to, text} per text node
collectTextNodes(blockNode, blockPos) ==
    LET runs == RunsOf(blockNode)
    IN [r \in 1..Len(runs) |->
          LET relPos == 1 + SumLen(runs, r - 1)
              from == blockPos + relPos + 1
          IN [from |-> from, to |-> from + Len(runs[r]), text |-> runs[r]]]

RECURSIVE FindDocPositionLoop(_, _, _, _)
\* the loop of findDocPosition from text node k with `cumulative`
FindDocPositionLoop(textNodes, textIndex, k, cumulative) ==
    IF k > Len(textNodes)
    THEN IF Len(textNodes) > 0 THEN textNodes[Len(textNodes)].to ELSE 0
    ELSE IF textIndex <= cumulative + Len(textNodes[k].text)
         THEN textNodes[k].from + (textIndex - cumulative)
    ELSE FindDocPositionLoop(textNodes, textIndex, k + 1,
                             cumulative + Len(textNodes[k].text))

\* findDocPosition(textNodes, textIndex)
findDocPosition(textNodes, textIndex) == FindDocPositionLoop(textNodes, textIndex, 1, 0)

\* the 'insert' branch pushing one range from startIdx to endIdx, not clipped
\* to the text nodes
InsertDecorationsUnclipped(textNodes, startIdx, endIdx, k) ==
    IF k > Len(textNodes) \/ startIdx >= endIdx THEN <<>>
    ELSE <<[kind |-> "inline", from |-> textNodes[k].from + startIdx,
            to |-> textNodes[k].from + endIdx, class |-> "diff-insert"]>>

RECURSIVE InsertDecorations(_, _, _, _)
\* the inner loop of the 'insert' branch: one inline decoration per text node
\* overlapping [startIdx, endIdx), from text node k on
InsertDecorations(textNodes, startIdx, endIdx, k) ==
    IF k > Len(textNodes) THEN <<>>
    ELSE LET tn == textNodes[k]
             nodeStart == SumLen([q \in 1..Len(textNodes) |-> textNodes[q].text], k - 1)
             nodeEnd == nodeStart + Len(tn.text)
             decoStart == Max(startIdx, nodeStart)
             decoEnd == Min(endIdx, nodeEnd)
             from == tn.from + (decoStart - nodeStart)
             to == tn.from + (decoEnd - nodeStart)
         IN (IF nodeEnd > startIdx /\ nodeStart < endIdx /\ from < to
             THEN <<[kind |-> "inline", from |-> from, to |-> to, class |-> "diff-insert"]>>
             ELSE <<>>)
            \o InsertDecorations(textNodes, startIdx, endIdx, k + 1)

RECURSIVE InlineLoop(_, _, _, _)
\* the loop of buildInlineDecorations over wordDiffs from part p with diffIndex
InlineLoop(textNodes, wordDiffList, p, diffIndex) ==
    IF p > Len(wordDiffList) THEN <<>>
    ELSE LET part == wordDiffList[p]
         IN IF part.type = "equal"
            THEN InlineLoop(textNodes, wordDiffList, p + 1, diffIndex + Len(part.value))
            ELSE IF part.type = "insert"
            THEN InsertDecorations(textNodes, diffIndex, diffIndex + Len(part.value), 1)
                   \o InlineLoop(textNodes, wordDiffList, p + 1, diffIndex + Len(part.value))
            ELSE <<[kind |-> "widget", pos |-> findDocPosition(textNodes, diffIndex),
                    side |-> -1, class |-> "diff-delete", text |-> part.value]>>
                   \o InlineLoop(textNodes, wordDiffList, p + 1, diffIndex)

\* buildInlineDecorations(blockNode, blockPos, wordDiffs)
buildInlineDecorations(blockNode, blockPos, wordDiffList) ==
    IF Len(collectTextNodes(blockNode, blockPos)) = 0 THEN <<>>
    ELSE InlineLoop(collectTextNodes(blockNode, blockPos), wordDiffList, 1, 0)

\* diffMap.get(blockId): the last 'modified' or 'added' diff set for the id
\* (1-based index into blockDiffs, 0 = undefined)
DiffMapGet(blockDiffs, blockId) ==
    LET hits == {n \in 1..Len(blockDiffs) :
                    /\ blockDiffs[n].type \in {"modified", "added"}
                    /\ blockDiffs[n].blockId = blockId}
    IN IF hits = {} THEN 0 ELSE CHOOSE n \in hits : \A h \in hits : h <= n

\* the decorations the doc.descendants callback pushes for block node k; a set,
\* one member per segment list computeWordDiff may return
BlockDecorations(doc, blockDiffs, k) ==
    LET node == doc[k]
        pos == BlockPos(doc, k)
        n == DiffMapGet(blockDiffs, node.id)
    IN IF node.id = Null \/ n = 0 THEN {<<>>}
       ELSE IF blockDiffs[n].type = "added"
       THEN {<<[kind |-> "node", from |-> pos, to |-> pos + NodeSize(node),
                class |-> "diff-block-added"]>>}
       ELSE {<<[kind |-> "node", from |-> pos, to |-> pos + NodeSize(node),
                class |-> "diff-block-modified"]>>
               \o buildInlineDecorations(node, pos, wd) :
                wd \in computeWordDiff(blockDiffs[n].originalText, blockDiffs[n].currentText)}

RECURSIVE WalkDecorations(_, _, _)
\* doc.descendants over the block nodes k, k+1, ...
WalkDecorations(doc, blockDiffs, k) ==
    IF k > Len(doc) THEN {<<>>}
    ELSE {this \o rest : this \in BlockDecorations(doc, blockDiffs, k),
                         rest \in WalkDecorations(doc, blockDiffs, k + 1)}

\* EndPosOf reading the start offset of the block (pos for endPos)
EndPosOfBlockStart(doc, id) ==
    LET hits == {k \in 1..Len(doc) : doc[k].id = id /\ id # Null}
    IN IF hits = {} THEN 0
       ELSE BlockPos(doc, CHOOSE k \in hits : \A h \in hits : h <= k)

\* blockPositions.get(id).endPos, 0 when the map has no such id
EndPosOf(doc, id) ==
    LET hits == {k \in 1..Len(doc) : doc[k].id = id /\ id # Null}
    IN IF hits = {} THEN 0
       ELSE LET k == CHOOSE k \in hits : \A h \in hits : h <= k
            IN BlockPos(doc, k) + NodeSize(doc[k])

\* the widget pushed for one 'deleted' diff
DeletedBlockWidget(doc, deleted) ==
    [kind |-> "widget",
     pos |-> IF deleted.afterBlockId # Null THEN EndPosOf(doc, deleted.afterBlockId) ELSE 0,
     side |-> 1, class |-> "diff-block-deleted", text |-> deleted.originalText,
     blockType |-> deleted.originalType, key |-> <<"deleted-", deleted.blockId>>]

\* the loop over deletedBlocks
DeletedBlockWidgets(doc, blockDiffs) ==
    LET deletedBlocks == SelectSeq(blockDiffs, LAMBDA d : d.type = "deleted")
    IN [n \in 1..Len(deletedBlocks) |-> DeletedBlockWidget(doc, deletedBlocks[n])]

\* buildDecorations(doc, blockDiffs): the decoration lists it may build
buildDecorations(doc, blockDiffs) ==
    {walk \o DeletedBlockWidgets(doc, blockDiffs) : walk \in WalkDecorations(doc, blockDiffs, 1)}

\* oldDecorations.map(tr.mapping, tr.doc) for a transaction without steps
MapDecorations(oldDecorations) == oldDecorations

\* apply rebuilding on document changes only (the meta is not looked at)
applyOnDocChangeOnly(transaction, oldDecorations, newDoc, extStorage) ==
    IF ~transaction.docChanged
    THEN {MapDecorations(oldDecorations)}
    ELSE IF ~extStorage.enabled \/ extStorage.blockDiffs.null
               \/ Len(extStorage.blockDiffs.v) = 0
    THEN {<<>>}
    ELSE buildDecorations(newDoc, extStorage.blockDiffs.v)

\* apply without the test of the enabled flag
applyIgnoringEnabled(transaction, oldDecorations, newDoc, extStorage) ==
    IF ~transaction.meta /\ ~transaction.docChanged
    THEN {MapDecorations(oldDecorations)}
    ELSE IF extStorage.blockDiffs.null \/ Len(extStorage.blockDiffs.v) = 0
    THEN {<<>>}
    ELSE buildDecorations(newDoc, extStorage.blockDiffs.v)

\* apply(tr, oldDecorations, oldState, newState) reading extension.storage:
\* the plugin states it may return
apply(transaction, oldDecorations, newDoc, extStorage) ==
    IF ~transaction.meta /\ ~transaction.docChanged
    THEN {MapDecorations(oldDecorations)}
    ELSE IF ~extStorage.enabled \/ extStorage.blockDiffs.null
               \/ Len(extStorage.blockDiffs.v) = 0
    THEN {<<>>}
    ELSE buildDecorations(newDoc, extStorage.blockDiffs.v)

-----------------------------------------------------------------------------
(* The editor view: the user changes the document, the parent component    *)
(* renders Editor with new props, the sync effect of Editor runs.          *)

\* the paragraph shapes of the documents of the editor runs
EditorKinds == {kind \in BlockKinds : kind.type = "paragraph"}

\* the documents the editor runs start from
EditorDocs ==
    UNION { {[k \in 1..n |-> Block(IdOrder[k], f[k].type, f[k].content)] :
                f \in [1..n -> EditorKinds]} : n \in 0..Min(MaxDocBlocks, Len(IdOrder)) }

\* the id a new block gets: one no block of the document or snapshot has
FreshId(doc, snapshot) ==
    LET free == {k \in 1..Len(IdOrder) : IdOrder[k] \notin IdsOfBlocks(doc) \cup IdsOfBlocks(snapshot)}
    IN IdOrder[CHOOSE k \in free : \A h \in free : k <= h]

\* sequence seq with element e inserted after its first p elements
InsertAt(seq, p, e) == SubSeq(seq, 1, p) \o <<e>> \o SubSeq(seq, p + 1, Len(seq))
\* sequence seq without its k-th element
RemoveAt(seq, k) == SubSeq(seq, 1, k - 1) \o SubSeq(seq, k + 1, Len(seq))

\* the documents one user edit leads to: a block rewritten, a block removed, a
\* new block inserted (a later edit rewrites it)
EditsOf(doc, snapshot) ==
    {[doc EXCEPT ![k] = Block(doc[k].id, kind.type, kind.content)] :
        k \in 1..Len(doc), kind \in EditorKinds}
    \cup {RemoveAt(doc, k) : k \in 1..Len(doc)}
    \cup (IF Len(doc) < MaxDocBlocks
          THEN {InsertAt(doc, p, Block(FreshId(doc, snapshot), "paragraph", <<Txt(<<"a">>)>>)) :
                   p \in 0..Len(doc)}
          ELSE {})

InitPlugin ==
    /\ pc = "editor"
    /\ currentBlocks \in {Arr(d) : d \in EditorDocs}
    /\ originalBlocks \in {NullArg, currentBlocks}
    /\ diffs = <<>>
    /\ originalText = <<>> /\ currentText = <<>> /\ wordDiffs = <<>>
    /\ mode = "edit"
    /\ blockDiffsProp = NullArg
    /\ effectPending = TRUE
    /\ storage = addStorage
    /\ decorations = <<>>
    /\ tr = [meta |-> FALSE, docChanged |-> FALSE]
    /\ edits = 0
    /\ CallsIdle /\ HookIdle

\* a transaction that changes the document (the user edits): apply rebuilds
\* from the storage as it is
DocChange ==
    /\ pc = "editor"
    /\ edits < MaxEdits
    /\ \E doc \in EditsOf(currentBlocks.v, originalBlocks.v) :
          /\ doc # currentBlocks.v
          /\ currentBlocks' = Arr(doc)
          /\ tr' = [meta |-> FALSE, docChanged |-> TRUE]
          /\ decorations' \in apply(tr', decorations, doc, storage)
    /\ edits' = edits + 1
    /\ UNCHANGED <<pc, originalBlocks, diffs, wordVars, mode, blockDiffsProp,
                   effectPending, storage>>
    /\ UNCHANGED <<lcsVars, textVars, hookVars>>

\* a transaction with neither a document change nor the meta (a selection change)
SelectionChange ==
    /\ pc = "editor"
    /\ tr' = [meta |-> FALSE, docChanged |-> FALSE]
    /\ decorations' \in apply(tr', decorations, currentBlocks.v, storage)
    /\ UNCHANGED <<pc, blockVars, wordVars, mode, blockDiffsProp, effectPending,
                   storage, edits>>
    /\ UNCHANGED <<lcsVars, textVars, hookVars>>

\* the parent renders Editor with the block diffs of the snapshot against the
\* document (or without the prop) and a mode; a changed prop schedules the effect
PropsChange ==
    /\ pc = "editor"
    /\ \E m \in {"edit", "suggest"},
          d \in {NullArg, Arr(computeBlockDiffs(originalBlocks, currentBlocks))} :
          /\ <<m, d>> # <<mode, blockDiffsProp>>
          /\ mode' = m
          /\ blockDiffsProp' = d
    /\ effectPending' = TRUE
    /\ UNCHANGED <<pc, blockVars, wordVars, storage, decorations, tr, edits>>
    /\ UNCHANGED <<lcsVars, textVars, hookVars>>

\* the effect of Editor: storage.blockDiffs = blockDiffs || [], storage.enabled =
\* (mode === 'suggest'), then dispatch(tr.setMeta('diffHighlight', true))
EditorEffect ==
    /\ pc = "editor"
    /\ effectPending
    /\ storage' = [blockDiffs |-> IF blockDiffsProp.null THEN Arr(<<>>) ELSE blockDiffsProp,
                   enabled |-> (mode = "suggest")]
    /\ tr' = [meta |-> TRUE, docChanged |-> FALSE]
    /\ decorations' \in apply(tr', decorations, currentBlocks.v, storage')
    /\ effectPending' = FALSE
    /\ UNCHANGED <<pc, blockVars, wordVars, mode, blockDiffsProp, edits>>
    /\ UNCHANGED <<lcsVars, textVars, hookVars>>

NextPlugin == DocChange \/ SelectionChange \/ PropsChange \/ EditorEffect

SpecPlugin == InitPlugin /\ [][NextPlugin]_vars

-----------------------------------------------------------------------------
(* The call buildDecorations(doc, blockDiffs) on the diffs of a snapshot   *)
(* against the live document, blocks without text included.                *)

\* the block shapes of the documents decorations are built for: a paragraph
\* without text (content: []) and the paragraphs of the editor runs
BuildKinds == {[type |-> "paragraph", content |-> <<>>]} \cup EditorKinds

\* the ids a live document of the build runs draws from
BuildIds == {IdOrder[k] : k \in 1..Min(MaxDocBlocks + 1, Len(IdOrder))}

\* snapshots of the build runs: blocks numbered in IdOrder
BuildOriginals ==
    UNION { {[k \in 1..n |-> Block(IdOrder[k], f[k].type, f[k].content)] :
                f \in [1..n -> BuildKinds]} : n \in 0..Min(MaxDocBlocks, Len(IdOrder)) }

\* live documents of the build runs: any ids without repetition
BuildDocs ==
    UNION { {[k \in 1..n |-> Block(s[k], f[k].type, f[k].content)] :
                s \in {t \in [1..n -> BuildIds] : \A i, j \in 1..n : i # j => t[i] # t[j]},
                f \in [1..n -> BuildKinds]} : n \in 0..Min(MaxDocBlocks, Len(IdOrder)) }

InitBuild ==
    /\ pc = "start"
    /\ originalBlocks \in {Arr(d) : d \in BuildOriginals}
    /\ currentBlocks \in {Arr(d) : d \in BuildDocs}
    /\ diffs = computeBlockDiffs(originalBlocks, currentBlocks)
    /\ originalText = <<>> /\ currentText = <<>> /\ wordDiffs = <<>>
    /\ PluginIdle
    /\ CallsIdle /\ HookIdle

\* buildDecorations(doc, blockDiffs) returns the decoration set
BuildDecorations ==
    /\ pc = "start"
    /\ decorations' \in buildDecorations(currentBlocks.v, diffs)
    /\ pc' = "built"
    /\ UNCHANGED <<blockVars, wordVars, mode, blockDiffsProp, effectPending, storage,
                   tr, edits>>
    /\ UNCHANGED <<lcsVars, textVars, hookVars>>

NextBuild == BuildDecorations

SpecBuild == InitBuild /\ [][NextBuild]_vars

-----------------------------------------------------------------------------
(* The call buildInlineDecorations(blockNode, blockPos, wordDiffs) on a    *)
(* block of one or several text runs, the second block of its document,    *)
(* and any word diff, also one computed for another text than the block    *)
(* holds now.                                                              *)

\* a text of n characters
TextOfLen(n) == [k \in 1..n |-> "a"]

\* the inline contents of the blocks of the inline runs: text items, one per run
InlineContents ==
    UNION {[1..n -> {Txt(TextOfLen(len)) : len \in 1..MaxSegLen}] : n \in 0..MaxItems}

\* the word diffs of the inline runs
InlineWordDiffs ==
    UNION {[1..n -> [type : {"equal", "insert", "delete"},
                     value : {TextOfLen(len) : len \in 1..MaxSegLen}]] :
              n \in 0..MaxSegments}

InitInline ==
    /\ pc = "start"
    /\ \E content \in InlineContents :
          LET node == Block(IdOrder[2], "paragraph", content)
              first == Block(IdOrder[1], "paragraph", <<Txt(<<"a">>)>>)
          IN /\ currentBlocks = Arr(<<first, node>>)
             /\ blockArg = [node |-> node, pos |-> BlockPos(<<first, node>>, 2)]
    /\ wordDiffs \in InlineWordDiffs
    /\ originalText = <<>> /\ currentText = <<>>
    /\ originalBlocks = NullArg /\ diffs = <<>>
    /\ textIndexArg = 0 /\ docPos = 0
    /\ matches = <<>> /\ blockText = <<>>
    /\ PluginIdle
    /\ HookIdle

\* buildInlineDecorations(blockNode, blockPos, wordDiffs) returns its list
BuildInlineDecorations ==
    /\ pc = "start"
    /\ decorations' = buildInlineDecorations(blockArg.node, blockArg.pos, wordDiffs)
    /\ pc' = "built"
    /\ UNCHANGED <<blockVars, wordVars, mode, blockDiffsProp, effectPending, storage,
                   tr, edits>>
    /\ UNCHANGED <<lcsVars, textVars, hookVars>>

NextInline == BuildInlineDecorations

SpecInline == InitInline /\ [][NextInline]_vars

-----------------------------------------------------------------------------
(* The call computeBlockDiffs on blocks that may lack an id: `b.id` is     *)
(* undefined, and undefined is a Map key like any other.                   *)

\* id sequences in which only the first id of IdOrder and the missing id
\* (undefined) occur, the missing id any number of times
AnyIdSeqs ==
    UNION { {s \in [1..n -> {Null, IdOrder[1]}] :
                \A i, j \in 1..n : (i # j /\ s[i] # Null) => s[i] # s[j]} :
              n \in 0..MaxDocBlocks }

\* block sequences in which blocks may lack an id
AnyIdBlocks == UNION { BlocksWithIds(s) : s \in AnyIdSeqs }

InitAnyId ==
    /\ pc = "start"
    /\ originalBlocks \in {Arr(s) : s \in AnyIdBlocks}
    /\ currentBlocks \in {Arr(s) : s \in AnyIdBlocks}
    /\ diffs = <<>>
    /\ originalText = <<>> /\ currentText = <<>> /\ wordDiffs = <<>>
    /\ PluginIdle
    /\ CallsIdle /\ HookIdle

SpecAnyId == InitAnyId /\ [][Next]_vars

-----------------------------------------------------------------------------
(* The call computeLCS(original, current) on two leftover sequences        *)

InitLCS ==
    /\ pc = "start"
    /\ originalBlocks \in {Arr(s) : s \in Originals}
    /\ currentBlocks \in {Arr(s) : s \in Originals}
    /\ diffs = <<>>
    /\ originalText = <<>> /\ currentText = <<>> /\ wordDiffs = <<>>
    /\ PluginIdle
    /\ CallsIdle /\ HookIdle

ComputeLCS ==
    /\ pc = "start"
    /\ matches' = computeLCS(originalBlocks.v, currentBlocks.v)
    /\ pc' = "done"
    /\ UNCHANGED <<blockVars, wordVars, pluginVars, textVars, hookVars>>

NextLCS == ComputeLCS

SpecLCS == InitLCS /\ [][NextLCS]_vars

-----------------------------------------------------------------------------
(* The call findDocPosition(collectTextNodes(blockNode, blockPos),         *)
(* textIndex) for a block of a document                                    *)

InitPos ==
    /\ pc = "start"
    /\ currentBlocks \in {Arr(d) : d \in BuildOriginals}
    /\ \E k \in 1..Len(currentBlocks.v) :
          blockArg = [node |-> currentBlocks.v[k], pos |-> BlockPos(currentBlocks.v, k)]
    /\ textIndexArg \in 0..(MaxTextLen + 1)
    /\ docPos = 0
    /\ matches = <<>> /\ blockText = <<>>
    /\ originalBlocks = NullArg /\ diffs = <<>>
    /\ originalText = <<>> /\ currentText = <<>> /\ wordDiffs = <<>>
    /\ PluginIdle
    /\ HookIdle

FindDocPosition ==
    /\ pc = "start"
    /\ docPos' = findDocPosition(collectTextNodes(blockArg.node, blockArg.pos), textIndexArg)
    /\ pc' = "done"
    /\ UNCHANGED <<blockVars, wordVars, pluginVars, lcsVars, blockArg, blockText,
                   textIndexArg, hookVars>>

NextPos == FindDocPosition

SpecPos == InitPos /\ [][NextPos]_vars

-----------------------------------------------------------------------------
(* The call getBlockText(block) on blocks of any shape                     *)

\* the items a content array may hold: a string, {type: 'text', text}, {type:
\* 'text'} without text, {type: 'link', text}, an object without type and
\* text, a number, null
ContentItems ==
    { Str(<<"a">>), Txt(<<"b">>), Txt(<<>>),
      [kind |-> "object", type |-> "link", text |-> <<"a">>],
      [kind |-> "object", type |-> Null, text |-> <<>>],
      [kind |-> "number", type |-> Null, text |-> <<>>],
      [kind |-> "null", type |-> Null, text |-> <<>>] }

\* the blocks handed to getBlockText: null, a block whose content is an array
\* of at most MaxItems items, a block whose content is no array (absent or a
\* string), with or without a direct text property
TextBlocks ==
    {NullArg}
    \cup {Arr(Block("a", "paragraph", c)) :
            c \in UNION {[1..n -> ContentItems] : n \in 0..MaxItems}}
    \cup {Arr([id |-> "a", type |-> "paragraph", isArray |-> FALSE,
               content |-> <<>>, text |-> t]) : t \in {<<>>, <<"a">>}}

InitText ==
    /\ pc = "start"
    /\ blockArg \in TextBlocks
    /\ blockText = <<>>
    /\ matches = <<>> /\ textIndexArg = 0 /\ docPos = 0
    /\ originalBlocks = NullArg /\ currentBlocks = NullArg /\ diffs = <<>>
    /\ originalText = <<>> /\ currentText = <<>> /\ wordDiffs = <<>>
    /\ PluginIdle
    /\ HookIdle

GetBlockText ==
    /\ pc = "start"
    /\ blockText' = getBlockTextOutcome(blockArg)
    /\ pc' = "done"
    /\ UNCHANGED <<blockVars, wordVars, pluginVars, lcsVars, blockArg, textIndexArg,
                   docPos, hookVars>>

NextText == GetBlockText

SpecText == InitText /\ [][NextText]_vars

-----------------------------------------------------------------------------
(* useSuggestMode(filename, editor), the revision with pendingMarkdown.    *)
(* A callback reads the state values of the render that created it (its    *)
(* closure); an async callback is suspended at its await and resumed        *)
(* later, other handlers running in between.  State updates made by a      *)
(* resumed callback reach the callbacks with the next render.  The editor  *)
(* methods blocksToMarkdownLossy and tryParseMarkdownToBlocks belong to    *)
(* BlockNote: markdown keeps the type and text of each block and loses its *)
(* id and its split into inline items; parsing gives new blocks.  The file *)
(* name is set, and the caller of savePendingChanges (not part of the      *)
(* sources) calls it with the markdown of the document in suggest mode.    *)

\* editor.blocksToMarkdownLossy(blocks): type and text of each block
blocksToMarkdownLossy(blocks) ==
    [k \in 1..Len(blocks) |-> [type |-> blocks[k].type, text |-> getBlockText(blocks[k])]]

\* the ids of IdOrder no block of doc has, in order
UnusedIds(doc) == SelectSeq(IdOrder, LAMBDA id : id \notin IdsOfBlocks(doc))

\* editor.tryParseMarkdownToBlocks(markdown): new blocks, their ids unused in
\* the document, one text item per block that has text
tryParseMarkdownToBlocks(markdown, doc) ==
    [k \in 1..Len(markdown) |->
        Block(UnusedIds(doc)[k], markdown[k].type,
              IF markdown[k].text = <<>> THEN <<>> ELSE <<Txt(markdown[k].text)>>)]

\* a markdown text is the empty string (falsy in a condition) when no block
\* has text
EmptyString(markdown) == \A k \in 1..Len(markdown) : markdown[k].text = <<>>

\* !value of a markdown state value: null or the empty string
Falsy(markdown) == markdown.null \/ EmptyString(markdown.v)

\* the paragraph shapes of the documents of the hook runs: empty, with text
HookKinds == {[type |-> "paragraph", content |-> <<>>],
              [type |-> "paragraph", content |-> <<Txt(<<"a">>)>>]}

\* the documents of the hook runs: one paragraph
HookDocs == {<<Block(IdOrder[1], kind.type, kind.content)>> : kind \in HookKinds}

\* the state values a render hands to the callbacks
RenderedState ==
    [mode |-> mode, originalMarkdown |-> originalMarkdown,
     pendingMarkdown |-> pendingMarkdown, comments |-> comments]

\* saveAnnotations(newComments, newOriginal, newPending): clearTimeout of the
\* scheduled save, setTimeout of the new one (`by` names the caller)
saveAnnotations(newComments, newOriginal, newPending, by) ==
    Arr([comments |-> newComments, suggestModeOriginal |-> newOriginal,
         suggestModePending |-> newPending, by |-> by])

\* rejectAll returning at once whatever the snapshot (editor only tested)
rejectAllRunsWithoutSnapshot(c) == ~currentBlocks.null

\* rejectAll goes on: `if (!editor || !originalMarkdown) return` does not return
rejectAllRuns(c) == ~currentBlocks.null /\ ~Falsy(c.originalMarkdown)

InitHook ==
    /\ pc = "hook"
    /\ currentBlocks \in {NullArg} \cup {Arr(d) : d \in HookDocs}
    /\ originalBlocks = NullArg /\ diffs = <<>>
    /\ originalText = <<>> /\ currentText = <<>> /\ wordDiffs = <<>>
    /\ PluginIdle
    /\ CallsIdle
    /\ originalMarkdown = NullArg
    /\ pendingMarkdown = NullArg
    /\ comments = 0
    /\ closure = RenderedState
    /\ saveTimeout = NullArg
    /\ annotations = [comments |-> 0, suggestModeOriginal |-> NullArg,
                      suggestModePending |-> NullArg]
    /\ awaiting = {}
    /\ fileContent = IF currentBlocks.null THEN Arr(<<>>)
                     ELSE Arr(blocksToMarkdownLossy(currentBlocks.v))
    /\ filename = Arr("a.md")
    /\ loading = FALSE
    /\ lastCall = <<>>

\* what no action of the hook runs touches
HookUnused ==
    UNCHANGED <<pc, originalBlocks, diffs, wordVars, blockDiffsProp, effectPending,
                storage, decorations, tr, lcsVars, textVars, filename, loading, lastCall>>

\* the user edits the document: a paragraph is rewritten
HookDocEdit ==
    /\ pc = "hook"
    /\ ~currentBlocks.null
    /\ \E k \in 1..Len(currentBlocks.v), kind \in HookKinds :
          LET doc == [currentBlocks.v EXCEPT ![k] = Block(@.id, kind.type, kind.content)]
          IN /\ doc # currentBlocks.v
             /\ currentBlocks' = Arr(doc)
    /\ UNCHANGED <<mode, edits, hookVars>>
    /\ HookUnused

\* a render: the callbacks are created anew over the current state
Render ==
    /\ pc = "hook"
    /\ closure # RenderedState
    /\ closure' = RenderedState
    /\ UNCHANGED <<currentBlocks, mode, edits, originalMarkdown, pendingMarkdown,
                   comments, saveTimeout, annotations, awaiting, fileContent>>
    /\ HookUnused

\* enterSuggestMode up to its await (returns at once without an editor)
EnterSuggestMode ==
    /\ pc = "hook"
    /\ \A a \in awaiting : a.fn # "enterSuggestMode"
    /\ IF currentBlocks.null
       THEN UNCHANGED awaiting
       ELSE awaiting' = awaiting \cup
              {[fn |-> "enterSuggestMode",
                markdown |-> Arr(blocksToMarkdownLossy(currentBlocks.v)),
                comments |-> closure.comments]}
    /\ UNCHANGED <<currentBlocks, mode, edits, originalMarkdown, pendingMarkdown,
                   comments, closure, saveTimeout, annotations, fileContent>>
    /\ HookUnused

\* enterSuggestMode behind its await: snapshot and pending text set, mode
\* 'suggest', the save scheduled
EnterSuggestModeResume ==
    /\ pc = "hook"
    /\ \E a \in awaiting :
          /\ a.fn = "enterSuggestMode"
          /\ originalMarkdown' = a.markdown
          /\ pendingMarkdown' = a.markdown
          /\ mode' = "suggest"
          /\ saveTimeout' = saveAnnotations(a.comments, a.markdown, a.markdown,
                                            "enterSuggestMode")
          /\ awaiting' = awaiting \ {a}
    /\ UNCHANGED <<currentBlocks, edits, comments, closure, annotations, fileContent>>
    /\ HookUnused

\* exitSuggestMode, called from an event handler: the render follows at once
ExitSuggestMode ==
    /\ pc = "hook"
    /\ originalMarkdown' = NullArg
    /\ pendingMarkdown' = NullArg
    /\ mode' = "edit"
    /\ saveTimeout' = saveAnnotations(closure.comments, NullArg, NullArg, "exitSuggestMode")
    /\ closure' = [mode |-> "edit", originalMarkdown |-> NullArg,
                   pendingMarkdown |-> NullArg, comments |-> comments]
    /\ UNCHANGED <<currentBlocks, edits, comments, annotations, awaiting, fileContent>>
    /\ HookUnused

\* savePendingChanges(markdown), called in suggest mode with the markdown of
\* the document
SavePendingChanges ==
    /\ pc = "hook"
    /\ ~currentBlocks.null
    /\ closure.mode = "suggest"
    /\ LET markdown == Arr(blocksToMarkdownLossy(currentBlocks.v))
       IN /\ markdown # pendingMarkdown
          /\ pendingMarkdown' = markdown
          /\ saveTimeout' = saveAnnotations(closure.comments, closure.originalMarkdown,
                                            markdown, "savePendingChanges")
          /\ closure' = [mode |-> mode, originalMarkdown |-> originalMarkdown,
                         pendingMarkdown |-> markdown, comments |-> comments]
    /\ UNCHANGED <<currentBlocks, mode, edits, originalMarkdown, comments, annotations,
                   awaiting, fileContent>>
    /\ HookUnused

\* acceptAll up to its await of the PUT of the file (returns at once without
\* pending text)
AcceptAll ==
    /\ pc = "hook"
    /\ \A a \in awaiting : a.fn # "acceptAll"
    /\ IF Falsy(closure.pendingMarkdown)
       THEN UNCHANGED awaiting
       ELSE awaiting' = awaiting \cup
              {[fn |-> "acceptAll", markdown |-> closure.pendingMarkdown,
                comments |-> closure.comments]}
    /\ UNCHANGED <<currentBlocks, mode, edits, originalMarkdown, pendingMarkdown,
                   comments, closure, saveTimeout, annotations, fileContent>>
    /\ HookUnused

\* What the await of a fetch can give: the server wrote the file, the server
\* answered with an error status (400, 500: fetch still resolves), or the
\* request failed and the promise rejects.
FetchOutcomes == {"ok", "httpError", "networkError"}

\* PUT /api/files/:filename: the file after the request
putFile(outcome, content) == IF outcome = "ok" THEN content ELSE fileContent

\* acceptAll behind its await: a rejected promise leaves the handler, any
\* response (res.ok is not looked at) lets it end the session
AcceptAllResume ==
    /\ pc = "hook"
    /\ \E a \in awaiting, outcome \in FetchOutcomes :
          /\ a.fn = "acceptAll"
          /\ fileContent' = putFile(outcome, a.markdown)
          /\ awaiting' = awaiting \ {a}
          /\ IF outcome = "networkError"
             THEN UNCHANGED <<saveTimeout, originalMarkdown, pendingMarkdown, mode>>
             ELSE /\ saveTimeout' = saveAnnotations(a.comments, NullArg, NullArg, "acceptAll")
                  /\ originalMarkdown' = NullArg
                  /\ pendingMarkdown' = NullArg
                  /\ mode' = "edit"
    /\ UNCHANGED <<currentBlocks, edits, comments, closure, annotations>>
    /\ HookUnused

\* rejectAll up to its await (returns at once without editor or snapshot)
RejectAll ==
    /\ pc = "hook"
    /\ \A a \in awaiting : a.fn # "rejectAll"
    /\ IF rejectAllRuns(closure)
       THEN awaiting' = awaiting \cup
              {[fn |-> "rejectAll", markdown |-> closure.originalMarkdown,
                comments |-> closure.comments]}
       ELSE UNCHANGED awaiting
    /\ UNCHANGED <<currentBlocks, mode, edits, originalMarkdown, pendingMarkdown,
                   comments, closure, saveTimeout, annotations, fileContent>>
    /\ HookUnused

\* rejectAll behind its await: the document replaced by the parsed snapshot,
\* the session ends
RejectAllResume ==
    /\ pc = "hook"
    /\ \E a \in awaiting :
          /\ a.fn = "rejectAll"
          /\ currentBlocks' = Arr(tryParseMarkdownToBlocks(a.markdown.v, currentBlocks.v))
          /\ saveTimeout' = saveAnnotations(a.comments, NullArg, NullArg, "rejectAll")
          /\ awaiting' = awaiting \ {a}
    /\ originalMarkdown' = NullArg
    /\ pendingMarkdown' = NullArg
    /\ mode' = "edit"
    /\ UNCHANGED <<edits, comments, closure, annotations, fileContent>>
    /\ HookUnused

\* addComment, called from an event handler
AddComment ==
    /\ pc = "hook"
    /\ comments < MaxComments
    /\ comments' = closure.comments + 1
    /\ saveTimeout' = saveAnnotations(closure.comments + 1, closure.originalMarkdown,
                                      closure.pendingMarkdown, "addComment")
    /\ closure' = [mode |-> mode, originalMarkdown |-> originalMarkdown,
                   pendingMarkdown |-> pendingMarkdown, comments |-> closure.comments + 1]
    /\ UNCHANGED <<currentBlocks, mode, edits, originalMarkdown, pendingMarkdown,
                   annotations, awaiting, fileContent>>
    /\ HookUnused

\* the timer of saveAnnotations fires 300 ms after the last call: the PUT
\* replaces the annotations of the file
SaveTimeoutFires ==
    /\ pc = "hook"
    /\ ~saveTimeout.null
    /\ annotations' = [comments |-> saveTimeout.v.comments,
                       suggestModeOriginal |-> saveTimeout.v.suggestModeOriginal,
                       suggestModePending |-> saveTimeout.v.suggestModePending]
    /\ saveTimeout' = NullArg
    /\ UNCHANGED <<currentBlocks, mode, edits, originalMarkdown, pendingMarkdown,
                   comments, closure, awaiting, fileContent>>
    /\ HookUnused

NextHook ==
    \/ HookDocEdit \/ Render
    \/ EnterSuggestMode \/ EnterSuggestModeResume
    \/ ExitSuggestMode \/ SavePendingChanges
    \/ AcceptAll \/ AcceptAllResume
    \/ RejectAll \/ RejectAllResume
    \/ AddComment \/ SaveTimeoutFires

SpecHook == InitHook /\ [][NextHook]_vars

-----------------------------------------------------------------------------
(* useSuggestMode(filename, editor) across files: the filename prop         *)
(* changes, the load effect fetches the annotations of the new file, and    *)
(* saveAnnotations sends the debounced PUT for the file of the render that   *)
(* created it.  The server keeps one annotations file per document.  The   *)
(* runs have no editor; the caller of saveAnnotations is addComment.        *)

\* the documents of the runs
Files == {"a.md", "b.md"}

\* {comments: [], suggestModeOriginal: null}, the answer of the server
\* without a usable annotations file (suggestModePending is absent)
defaultAnnotations ==
    [comments |-> 0, suggestModeOriginal |-> NullArg, suggestModePending |-> NullArg]

\* the text 'a' as markdown
MarkdownA == <<[type |-> "paragraph", text |-> <<"a">>]>>

\* what `${filename}.comments.json` can be on the server: missing, not JSON,
\* or the JSON of an annotations object
StoredAnnotations ==
    {[kind |-> "missing", data |-> defaultAnnotations],
     [kind |-> "invalid", data |-> defaultAnnotations],
     [kind |-> "json", data |-> defaultAnnotations],
     [kind |-> "json", data |-> [comments |-> 1, suggestModeOriginal |-> Arr(MarkdownA),
                                 suggestModePending |-> Arr(MarkdownA)]]}

\* GET /api/files/:filename/annotations: the parsed file, the default when
\* readFile or JSON.parse fails
getAnnotations(stored) ==
    IF stored.kind = "json" THEN stored.data ELSE defaultAnnotations

\* PUT /api/files/:filename/annotations: the file is the JSON of the body
putAnnotations(body) == [kind |-> "json", data |-> body]

\* value || null
OrNull(markdown) == IF Falsy(markdown) THEN NullArg ELSE markdown

\* the state the .then(data => ...) of the load effect sets
loadThen(data) ==
    [comments |-> data.comments,
     originalMarkdown |-> OrNull(data.suggestModeOriginal),
     pendingMarkdown |-> OrNull(data.suggestModePending),
     mode |-> IF Falsy(data.suggestModeOriginal) THEN "edit" ELSE "suggest"]

\* a .catch of the load effect that sets nothing
loadCatchWithoutReset ==
    [comments |-> comments, originalMarkdown |-> originalMarkdown,
     pendingMarkdown |-> pendingMarkdown, mode |-> mode]

\* the state the .catch(() => ...) of the load effect sets, also set by the
\* effect when there is no filename
loadCatch ==
    [comments |-> 0, originalMarkdown |-> NullArg, pendingMarkdown |-> NullArg,
     mode |-> "edit"]

\* how the fetch of the load effect can end: a JSON response, a response
\* res.json() cannot parse, a failed request
LoadOutcomes == {"ok", "unparsable", "networkError"}

\* the state values and the filename a render hands to the callbacks
RenderedFileState ==
    [filename |-> filename, mode |-> mode, originalMarkdown |-> originalMarkdown,
     pendingMarkdown |-> pendingMarkdown, comments |-> comments]

\* what no action of these runs touches
FilesUnused ==
    UNCHANGED <<pc, blockVars, wordVars, blockDiffsProp, effectPending, storage,
                decorations, tr, edits, lcsVars, textVars, fileContent>>

InitFiles ==
    /\ pc = "files"
    /\ currentBlocks = NullArg
    /\ originalBlocks = NullArg /\ diffs = <<>>
    /\ originalText = <<>> /\ currentText = <<>> /\ wordDiffs = <<>>
    /\ PluginIdle
    /\ CallsIdle
    /\ filename = NullArg
    /\ loading = FALSE
    /\ originalMarkdown = NullArg
    /\ pendingMarkdown = NullArg
    /\ comments = 0
    /\ closure = RenderedFileState
    /\ saveTimeout = NullArg
    /\ annotations \in [Files -> StoredAnnotations]
    /\ awaiting = {}
    /\ fileContent = NullArg
    /\ lastCall = [f \in Files |-> NullArg]

\* the parent passes another filename: the hook renders and the load effect
\* runs, resetting the state without a filename and starting a fetch with one
\* (at most one load of a file in flight)
SelectFile ==
    /\ pc = "files"
    /\ \E f \in {NullArg} \cup {Arr(name) : name \in Files} :
          /\ f # filename
          /\ filename' = f
          /\ IF f.null
             THEN /\ comments' = loadCatch.comments
                  /\ originalMarkdown' = loadCatch.originalMarkdown
                  /\ pendingMarkdown' = loadCatch.pendingMarkdown
                  /\ mode' = loadCatch.mode
                  /\ UNCHANGED <<loading, awaiting>>
             ELSE /\ \A a \in awaiting : a.filename # f.v
                  /\ loading' = TRUE
                  /\ awaiting' = awaiting \cup
                        {[fn |-> "load", filename |-> f.v, settled |-> "no",
                          data |-> defaultAnnotations]}
                  /\ UNCHANGED <<comments, originalMarkdown, pendingMarkdown, mode>>
    /\ closure' = RenderedFileState'
    /\ UNCHANGED <<saveTimeout, annotations, lastCall>>
    /\ FilesUnused

\* the fetch of a load settles: the server answers the GET, or the response
\* cannot be parsed, or the request fails
FetchSettles ==
    /\ pc = "files"
    /\ \E a \in awaiting, outcome \in LoadOutcomes :
          /\ a.settled = "no"
          /\ awaiting' = (awaiting \ {a}) \cup
                {[a EXCEPT !.settled = outcome,
                           !.data = IF outcome = "ok"
                                    THEN getAnnotations(annotations[a.filename])
                                    ELSE defaultAnnotations]}
    /\ UNCHANGED <<mode, originalMarkdown, pendingMarkdown, comments, closure,
                   saveTimeout, annotations, filename, loading, lastCall>>
    /\ FilesUnused

\* the callbacks of a settled load run: .then with the data or .catch, then
\* .finally; nothing compares the file of the load with the filename
LoadResolves ==
    /\ pc = "files"
    /\ \E a \in awaiting :
          /\ a.settled # "no"
          /\ LET loaded == IF a.settled = "ok" THEN loadThen(a.data) ELSE loadCatch
             IN /\ comments' = loaded.comments
                /\ originalMarkdown' = loaded.originalMarkdown
                /\ pendingMarkdown' = loaded.pendingMarkdown
                /\ mode' = loaded.mode
          /\ awaiting' = awaiting \ {a}
    /\ loading' = FALSE
    /\ UNCHANGED <<closure, saveTimeout, annotations, filename, lastCall>>
    /\ FilesUnused

\* a render: the callbacks are created anew over the current state
RenderFiles ==
    /\ pc = "files"
    /\ closure # RenderedFileState
    /\ closure' = RenderedFileState
    /\ UNCHANGED <<mode, originalMarkdown, pendingMarkdown, comments, saveTimeout,
                   annotations, awaiting, filename, loading, lastCall>>
    /\ FilesUnused

\* addComment, called from an event handler: saveAnnotations returns without
\* a filename, else clears the scheduled save and schedules its own for the
\* filename of its render
AddCommentToFile ==
    /\ pc = "files"
    /\ closure.comments < MaxComments
    /\ comments' = closure.comments + 1
    /\ LET body == [comments |-> closure.comments + 1,
                    suggestModeOriginal |-> closure.originalMarkdown,
                    suggestModePending |-> closure.pendingMarkdown]
       IN IF closure.filename.null
          THEN UNCHANGED <<saveTimeout, lastCall>>
          ELSE /\ saveTimeout' = Arr([filename |-> closure.filename.v, body |-> body])
               /\ lastCall' = [lastCall EXCEPT ![closure.filename.v] = Arr(body)]
    /\ closure' = [closure EXCEPT !.comments = closure.comments + 1]
    /\ UNCHANGED <<mode, originalMarkdown, pendingMarkdown, annotations, awaiting,
                   filename, loading>>
    /\ FilesUnused

\* the timer of saveAnnotations fires 300 ms after the last call: the PUT
\* writes the annotations file of the filename the call was made for
SaveTimeoutFiresForFile ==
    /\ pc = "files"
    /\ ~saveTimeout.null
    /\ annotations' = [annotations EXCEPT ![saveTimeout.v.filename] =
                                              putAnnotations(saveTimeout.v.body)]
    /\ saveTimeout' = NullArg
    /\ UNCHANGED <<mode, originalMarkdown, pendingMarkdown, comments, closure,
                   awaiting, filename, loading, lastCall>>
    /\ FilesUnused

NextFiles ==
    \/ SelectFile \/ FetchSettles \/ LoadResolves
    \/ RenderFiles \/ AddCommentToFile \/ SaveTimeoutFiresForFile

SpecFiles == InitFiles /\ [][NextFiles]_vars

-----------------------------------------------------------------------------
(* Vocabulary of the properties of computeBlockDiffs                       *)

\* the call has returned and both arguments were arrays
Returned == pc = "done" /\ ~originalBlocks.null /\ ~currentBlocks.null

IdsOf(blocks) == IdsOfBlocks(blocks)
SigsOf(blocks) == [k \in 1..Len(blocks) |-> <<blocks[k].type, ":">> \o getBlockText(blocks[k])]

\* indices of the returned diffs of a given type
DiffsOfType(t) == {n \in 1..Len(diffs) : diffs[n].type = t}
Placed == DiffsOfType("unchanged") \cup DiffsOfType("modified") \cup DiffsOfType("added")

\* 1-based indices of the original blocks that have no 'deleted' diff
KeptOriginal ==
    {k \in 1..Len(originalBlocks.v) :
        \A n \in DiffsOfType("deleted") : diffs[n].position # k - 1}

\* the subsequence of seq at the index set S
Pick(seq, S) == SelectSeq([k \in 1..Len(seq) |-> IF k \in S THEN <<seq[k]>> ELSE <<>>],
                          LAMBDA e : e # <<>>)

\* length of the longest common subsequence, by enumeration of subsequences
LongestCommon(xs, ys) ==
    LET sizes == {Cardinality(S) : S \in {S \in SUBSET (1..Len(xs)) :
                     \E T \in SUBSET (1..Len(ys)) : Pick(xs, S) = Pick(ys, T)}}
    IN CHOOSE k \in sizes : \A h \in sizes : h <= k

\* the blocks identity matching leaves over: their id is absent from the other side
LeftoverOriginal ==
    SelectSeq(originalBlocks.v, LAMBDA b : b.id \notin IdsOf(currentBlocks.v))
LeftoverCurrent ==
    SelectSeq(currentBlocks.v, LAMBDA b : b.id \notin IdsOf(originalBlocks.v))

\* every block of current has the type and text of the original block at its index
SameContentInOrder ==
    /\ Len(originalBlocks.v) = Len(currentBlocks.v)
    /\ SigsOf(originalBlocks.v) = SigsOf(currentBlocks.v)

\* each current block kept the id of the original block at its index or got a
\* fresh one (an id no original block has)
IdsKeptOrFresh ==
    \A k \in 1..Len(currentBlocks.v) :
        \/ currentBlocks.v[k].id = originalBlocks.v[k].id
        \/ currentBlocks.v[k].id \notin IdsOf(originalBlocks.v)

-----------------------------------------------------------------------------
(* Properties of computeBlockDiffs                                         *)

\* C1: computeBlockDiffs(A, A) returns only 'unchanged' diffs, exactly one per
\* block of A (none for the empty sequence), and no added/modified/deleted diff.
C1_SelfDiffAllUnchanged ==
    (Returned /\ originalBlocks.v = currentBlocks.v) =>
        /\ Len(diffs) = Len(currentBlocks.v)
        /\ \A n \in 1..Len(diffs) : diffs[n].type = "unchanged"
        /\ \A k \in 1..Len(currentBlocks.v) :
              Cardinality({n \in 1..Len(diffs) :
                  diffs[n].blockId = currentBlocks.v[k].id /\ diffs[n].position = k - 1}) = 1

C1_Witness ==
    /\ Returned /\ originalBlocks.v = currentBlocks.v
    /\ Len(currentBlocks.v) = MaxBlocks
    /\ Len(diffs) = MaxBlocks

\* C2: computeBlockDiffs([], A) returns |A| diffs, all 'added', and runs no LCS
\* (there is no leftover original); computeBlockDiffs(A, []) returns |A| diffs,
\* all 'deleted'.
C2_EmptySideAllAddedOrDeleted ==
    /\ (Returned /\ originalBlocks.v = <<>>) =>
          /\ Len(diffs) = Len(currentBlocks.v)
          /\ \A n \in 1..Len(diffs) : diffs[n].type = "added"
          /\ LeftoverOriginal = <<>>
    /\ (Returned /\ currentBlocks.v = <<>>) =>
          /\ Len(diffs) = Len(originalBlocks.v)
          /\ \A n \in 1..Len(diffs) : diffs[n].type = "deleted"

C2_Witness ==
    /\ Returned /\ originalBlocks.v = <<>>
    /\ Len(currentBlocks.v) = 2 /\ Len(diffs) = 2

\* C3: for every id in both sequences exactly one diff has that blockId:
\* 'unchanged' when text and type are equal, otherwise 'modified' with
\* originalText and currentText; its position is the index in current.
C3_IdentityMatchOneDiff ==
    Returned =>
        \A i \in 1..Len(originalBlocks.v) : \A j \in 1..Len(currentBlocks.v) :
            LET o == originalBlocks.v[i]
                c == currentBlocks.v[j]
            IN o.id = c.id =>
                /\ Cardinality({n \in 1..Len(diffs) : diffs[n].blockId = o.id}) = 1
                /\ \E n \in 1..Len(diffs) :
                      diffs[n] =
                        IF getBlockText(o) = getBlockText(c) /\ o.type = c.type
                        THEN [type |-> "unchanged", blockId |-> o.id, position |-> j - 1]
                        ELSE [type |-> "modified", blockId |-> o.id,
                              originalText |-> getBlockText(o),
                              currentText |-> getBlockText(c), position |-> j - 1]

\* an id kept by a block that moved and changed its text only
C3_Witness ==
    /\ Returned
    /\ \E i \in 1..Len(originalBlocks.v) : \E j \in 1..Len(currentBlocks.v) :
          /\ i # j
          /\ originalBlocks.v[i].id = currentBlocks.v[j].id
          /\ originalBlocks.v[i].type = currentBlocks.v[j].type
          /\ getBlockText(originalBlocks.v[i]) # getBlockText(currentBlocks.v[j])
          /\ \E n \in DiffsOfType("modified") : diffs[n].blockId = currentBlocks.v[j].id

\* the number of leftover blocks pass 2 pairs is the LCS length of the leftovers'
\* signatures, and each pair yields one 'unchanged' diff
Pass2PairsAreLCS ==
    Returned =>
        LET lcs == LongestCommon(SigsOf(LeftoverOriginal), SigsOf(LeftoverCurrent))
        IN /\ Cardinality({n \in DiffsOfType("unchanged") :
                              diffs[n].blockId \notin IdsOf(originalBlocks.v)}) = lcs
           /\ Cardinality({k \in KeptOriginal :
                              originalBlocks.v[k].id \notin IdsOf(currentBlocks.v)}) = lcs

\* C4 (as claimed): pass 2 pairs as many leftovers as the LCS of their signatures,
\* each pair 'unchanged'; and whenever only block ids differ (same types, texts
\* and order) every diff is 'unchanged'.
C4_Original ==
    /\ Pass2PairsAreLCS
    /\ (Returned /\ SameContentInOrder) =>
          \A n \in 1..Len(diffs) : diffs[n].type = "unchanged"

\* C4 (amended): pass 2 pairs as many leftovers as the LCS of their signatures,
\* each pair 'unchanged'; and whenever types, texts and order are the same and
\* every block kept its id or got a fresh one, every diff is 'unchanged', one
\* per current block.
C4_LcsPairsAndFreshIdsUnchanged ==
    /\ Pass2PairsAreLCS
    /\ (Returned /\ SameContentInOrder /\ IdsKeptOrFresh) =>
          /\ Len(diffs) = Len(currentBlocks.v)
          /\ \A n \in 1..Len(diffs) : diffs[n].type = "unchanged"

\* two leftovers on each side, paired by signature after all ids changed
C4_Witness ==
    /\ Returned /\ SameContentInOrder /\ IdsKeptOrFresh
    /\ Len(LeftoverOriginal) = 2 /\ Len(LeftoverCurrent) = 2
    /\ Cardinality(DiffsOfType("unchanged")) = 2

\* the nearest original block before 1-based index i that has no 'deleted' diff
\* (0 when there is none)
NearestKeptBefore(i) ==
    LET prev == {k \in KeptOriginal : k < i}
    IN IF prev = {} THEN 0 ELSE CHOOSE k \in prev : \A h \in prev : h <= k

\* C5: for every 'deleted' diff with a matched original block before it,
\* afterBlockId is the id of the current counterpart of the nearest preceding
\* matched original block: the current block with the same id when there is
\* one, and only otherwise a current block with the same signature.
C5_AfterBlockIdIsCounterpart ==
    Returned =>
        \A n \in DiffsOfType("deleted") :
            LET j == NearestKeptBefore(diffs[n].position + 1)
            IN j # 0 =>
                LET ob == originalBlocks.v[j]
                IN IF ob.id \in IdsOf(currentBlocks.v)
                   THEN diffs[n].afterBlockId = ob.id
                   ELSE \E k \in 1..Len(currentBlocks.v) :
                           /\ currentBlocks.v[k].id = diffs[n].afterBlockId
                           /\ SigsOf(currentBlocks.v)[k] = SigsOf(originalBlocks.v)[j]

C7_PositionsDense ==
    Returned =>
        /\ \A n \in Placed : diffs[n].position \in 0..(Len(currentBlocks.v) - 1)
        /\ \A k \in 1..Len(currentBlocks.v) :
              /\ Cardinality({n \in Placed : diffs[n].position = k - 1}) = 1
              /\ \A n \in Placed :
                    diffs[n].position = k - 1 => diffs[n].blockId = currentBlocks.v[k].id

\* a current sequence with one unchanged, one modified and one added block
C7_Witness ==
    /\ Returned
    /\ Len(currentBlocks.v) = 3
    /\ DiffsOfType("unchanged") # {}
    /\ DiffsOfType("modified") # {}
    /\ DiffsOfType("added") # {}
    /\ DiffsOfType("deleted") # {}

-----------------------------------------------------------------------------
(* Properties of computeWordDiff                                           *)

\* the values of the segments whose type is in `types`, concatenated in order
JoinSegments(segments, types) ==
    Join([k \in 1..Len(segments) |->
            IF segments[k].type \in types THEN segments[k].value ELSE <<>>])

\* the segments reproduce the current text
ReconstructsCurrent ==
    pc = "done" => JoinSegments(wordDiffs, {"equal", "insert"}) = currentText

\* a side that is empty gives the empty list or one segment spanning the other side
EmptySideSegments ==
    pc = "done" =>
        /\ (originalText = <<>> /\ currentText = <<>>) => wordDiffs = <<>>
        /\ (originalText = <<>> /\ currentText # <<>>) =>
              wordDiffs = <<[type |-> "insert", value |-> currentText]>>
        /\ (originalText # <<>> /\ currentText = <<>>) =>
              wordDiffs = <<[type |-> "delete", value |-> originalText]>>

\* C8: the segments of computeWordDiff reconstruct both inputs: 'equal' and
\* 'delete' values concatenate to originalText, 'equal' and 'insert' values to
\* currentText, also for texts that differ only in whitespace; with an empty
\* side the result is the empty list or a single insert/delete segment.
C8_SegmentsReconstructBoth ==
    /\ pc = "done" => JoinSegments(wordDiffs, {"equal", "delete"}) = originalText
    /\ ReconstructsCurrent
    /\ EmptySideSegments

-----------------------------------------------------------------------------
(* Properties of the plugin state                                          *)

\* the transaction last applied made apply rebuild the decoration set
Rebuilt == pc = "editor" /\ (tr.meta \/ tr.docChanged)

\* C9: whenever the decoration set is rebuilt (document change or recompute
\* signal) while the enabled flag is false, it is empty, whatever block diffs
\* are stored.
C9_DisabledRebuildIsEmpty ==
    (Rebuilt /\ ~storage.enabled) => decorations = <<>>

\* a document change applied while disabled, with a 'modified' diff stored
C9_Witness ==
    /\ Rebuilt /\ tr.docChanged /\ ~storage.enabled
    /\ \E n \in 1..Len(storage.blockDiffs.v) : storage.blockDiffs.v[n].type = "modified"
    /\ decorations = <<>>

\* C10: with no snapshot (original block list null) computeBlockDiffs returns
\* the empty list, and a rebuild with an empty or absent diff list yields the
\* empty decoration set.
C10_NoSnapshotNoDecorations ==
    /\ (pc = "editor" /\ originalBlocks.null /\ ~blockDiffsProp.null) =>
          blockDiffsProp.v = <<>>
    /\ (Rebuilt /\ Len(storage.blockDiffs.v) = 0) => decorations = <<>>
    /\ (Rebuilt /\ tr.meta /\ ~effectPending /\ blockDiffsProp.null) =>
          (storage.blockDiffs = Arr(<<>>) /\ decorations = <<>>)

\* suggest mode without a snapshot: the parent computed the diffs of a non-empty
\* document, the effect stored them and the rebuild left no decoration
C10_Witness ==
    /\ Rebuilt /\ tr.meta /\ ~effectPending
    /\ originalBlocks.null /\ Len(currentBlocks.v) > 0
    /\ mode = "suggest" /\ storage.enabled
    /\ ~blockDiffsProp.null
    /\ storage.blockDiffs = Arr(<<>>)
    /\ decorations = <<>>

-----------------------------------------------------------------------------
(* Properties of buildDecorations                                          *)

\* the decorations of a list that satisfy a test
DecorationsWhere(decos, Test(_)) == {n \in 1..Len(decos) : Test(decos[n])}

\* the runs of a block as [start, end) index ranges of its joined text
RunRanges(block) ==
    [r \in 1..Len(RunsOf(block)) |->
        [start |-> SumLen(RunsOf(block), r - 1), end |-> SumLen(RunsOf(block), r)]]

\* the index of the joined text at which segment p of a word diff starts
SegmentStart(segments, p) ==
    Len(JoinSegments(SubSeq(segments, 1, p - 1), {"equal", "insert"}))

\* number of (insert segment, overlapped run) pairs of a word diff over a block
InsertRunOverlaps(block, segments) ==
    Cardinality({<<p, r>> \in (1..Len(segments)) \X (1..Len(RunsOf(block))) :
        /\ segments[p].type = "insert"
        /\ RunRanges(block)[r].end > SegmentStart(segments, p)
        /\ RunRanges(block)[r].start < SegmentStart(segments, p) + Len(segments[p].value)})

\* number of delete segments of a word diff
DeleteSegments(segments) ==
    Cardinality({p \in 1..Len(segments) : segments[p].type = "delete"})

\* what the decoration list holds for the 'modified' diff d of live block k:
\* one block highlight over the span, one inline highlight per overlapped run
\* of each insert segment, one 'before' widget per delete segment
ModifiedBlockDecorated(doc, decos, d, k) ==
    LET lo == BlockPos(doc, k)
        hi == lo + NodeSize(doc[k])
    IN /\ Cardinality(DecorationsWhere(decos, LAMBDA x :
              x.kind = "node" /\ x.from = lo /\ x.to = hi
                /\ x.class = "diff-block-modified")) = 1
       /\ \E segments \in computeWordDiff(d.originalText, d.currentText) :
              /\ Cardinality(DecorationsWhere(decos, LAMBDA x :
                     x.kind = "inline" /\ x.from >= lo /\ x.to <= hi))
                   = InsertRunOverlaps(doc[k], segments)
              /\ Cardinality(DecorationsWhere(decos, LAMBDA x :
                     x.kind = "widget" /\ x.side = -1 /\ x.pos >= lo /\ x.pos <= hi))
                   = DeleteSegments(segments)

\* the decoration set of the call has been built
Built == pc = "built"

\* C11: for each 'modified' diff whose block is in the live document,
\* buildDecorations emits one block highlight over the block's span, one inline
\* highlight per run overlapped by each insert segment, and one 'before'
\* widget per delete segment, also when the live block has no text run left.
C11_ModifiedBlockDecorations ==
    Built =>
        \A n \in DiffsOfType("modified") : \A k \in 1..Len(currentBlocks.v) :
            currentBlocks.v[k].id = diffs[n].blockId =>
                ModifiedBlockDecorated(currentBlocks.v, decorations, diffs[n], k)

\* the same for the live blocks that have a text run
C11_WithRuns ==
    Built =>
        \A n \in DiffsOfType("modified") : \A k \in 1..Len(currentBlocks.v) :
            (currentBlocks.v[k].id = diffs[n].blockId /\ RunsOf(currentBlocks.v[k]) # <<>>) =>
                ModifiedBlockDecorated(currentBlocks.v, decorations, diffs[n], k)

\* the 'after' widgets of a decoration list, in order
AfterWidgets(decos) == SelectSeq(decos, LAMBDA x : x.kind = "widget" /\ x.side = 1)

RECURSIVE EndOffset(_, _)
\* the offset just behind the k-th block of a document: the block group opens
\* at 0, a block takes its text and four tokens
EndOffset(doc, k) ==
    IF k = 0 THEN 1 ELSE EndOffset(doc, k - 1) + 4 + Len(getBlockText(doc[k]))

\* where the widget of a 'deleted' diff belongs in a live document
DeletedAnchor(doc, deleted) ==
    IF deleted.afterBlockId # Null /\ \E k \in 1..Len(doc) : doc[k].id = deleted.afterBlockId
    THEN EndOffset(doc, CHOOSE k \in 1..Len(doc) : doc[k].id = deleted.afterBlockId)
    ELSE 0

\* the plugin state was rebuilt by buildDecorations from the stored diffs
RebuiltFromDiffs == Rebuilt /\ storage.enabled /\ Len(storage.blockDiffs.v) > 0

\* C12: for each 'deleted' diff buildDecorations emits exactly one 'after'
\* widget, anchored at the end offset of the live block whose id is
\* afterBlockId when the live document has it, and at offset 0 when
\* afterBlockId is null or names no live block; in the order of the diffs.
C12_DeletedWidgetsAnchored ==
    RebuiltFromDiffs =>
        LET deletedBlocks == SelectSeq(storage.blockDiffs.v, LAMBDA d : d.type = "deleted")
            widgets == AfterWidgets(decorations)
        IN /\ Len(widgets) = Len(deletedBlocks)
           /\ \A n \in 1..Len(deletedBlocks) :
                 /\ widgets[n].pos = DeletedAnchor(currentBlocks.v, deletedBlocks[n])
                 /\ widgets[n].text = deletedBlocks[n].originalText
                 /\ widgets[n].key = <<"deleted-", deletedBlocks[n].blockId>>

\* a rebuild on a document change with a stored 'deleted' diff whose
\* afterBlockId names a block the document no longer has, and one whose
\* afterBlockId names a live block that is not the first of the document
C12_Witness ==
    /\ RebuiltFromDiffs /\ tr.docChanged
    /\ \E n \in 1..Len(storage.blockDiffs.v) :
          LET d == storage.blockDiffs.v[n]
          IN /\ d.type = "deleted" /\ d.afterBlockId # Null
             /\ d.afterBlockId \notin IdsOf(currentBlocks.v)
    /\ \E w \in 1..Len(decorations) :
          decorations[w].kind = "widget" /\ decorations[w].side = 1 /\ decorations[w].pos = 0

\* a rebuild that anchors a deleted block behind a live block
C12_WitnessAnchored ==
    /\ RebuiltFromDiffs
    /\ \E w \in 1..Len(decorations) :
          decorations[w].kind = "widget" /\ decorations[w].side = 1 /\ decorations[w].pos > 5

-----------------------------------------------------------------------------
(* Properties of computeBlockDiffs on blocks without an id                 *)

\* 1-based indices of the blocks of a sequence that have no id
IdLess(blocks) == {k \in 1..Len(blocks) : blocks[k].id = Null}

\* C13: a block without an id is never matched in pass 1: no diff of an
\* id-less block is 'modified', and two id-less blocks, one in each sequence,
\* give one 'unchanged' diff when their signatures are equal and otherwise one
\* 'deleted' plus one 'added'; the call returns.
C13_IdLessNeverIdentityMatched ==
    /\ Returned =>
          \A n \in 1..Len(diffs) : diffs[n].blockId = Null => diffs[n].type # "modified"
    /\ (/\ Returned
        /\ Cardinality(IdLess(originalBlocks.v)) = 1
        /\ Cardinality(IdLess(currentBlocks.v)) = 1
        /\ Len(originalBlocks.v) = 1 /\ Len(currentBlocks.v) = 1) =>
          IF SigsOf(originalBlocks.v) = SigsOf(currentBlocks.v)
          THEN Len(diffs) = 1 /\ diffs[1].type = "unchanged"
          ELSE /\ Len(diffs) = 2
               /\ Cardinality(DiffsOfType("deleted")) = 1
               /\ Cardinality(DiffsOfType("added")) = 1

-----------------------------------------------------------------------------
(* Properties of the rebuild trigger                                       *)

\* the decoration sets a rebuild from a storage over a document may yield
FreshDecorations(extStorage, doc) ==
    IF extStorage.enabled /\ Len(extStorage.blockDiffs.v) > 0
    THEN buildDecorations(doc, extStorage.blockDiffs.v)
    ELSE {<<>>}

\* the step applies a transaction (the props of Editor stay as they are)
TransactionStep == mode' = mode /\ blockDiffsProp' = blockDiffsProp

\* C16: a transaction that changes the document or carries the 'diffHighlight'
\* meta rebuilds the decoration set from the stored diffs and enabled flag,
\* the meta alone sufficing; a transaction with neither leaves the decoration
\* set as it was.
C16_RebuildExactlyOnSignal ==
    [][TransactionStep =>
          IF tr'.meta \/ tr'.docChanged
          THEN decorations' \in FreshDecorations(storage', currentBlocks'.v)
          ELSE decorations' = decorations]_vars

\* a transaction with neither signal has kept a non-empty decoration set while
\* the host has already switched the mode prop to 'edit' (the effect has not
\* run yet)
C16_Witness ==
    /\ pc = "editor"
    /\ ~tr.meta /\ ~tr.docChanged
    /\ decorations # <<>>
    /\ mode = "edit" /\ effectPending /\ storage.enabled

\* the signal has rebuilt a non-empty decoration set, the document unchanged
C16_WitnessSignal ==
    /\ pc = "editor"
    /\ tr.meta /\ ~tr.docChanged
    /\ decorations # <<>>

-----------------------------------------------------------------------------
(* Properties of computeLCS                                                *)

\* the n-th smallest member of a finite set of numbers
NthOf(S, n) == CHOOSE x \in S : Cardinality({y \in S : y < x}) = n - 1

\* the order-preserving pairings (0-based index pairs) of blocks of xs with
\* blocks of ys of the same signature
Alignments(xs, ys) ==
    {[n \in 1..Cardinality(ST[1]) |-> <<NthOf(ST[1], n) - 1, NthOf(ST[2], n) - 1>>] :
        ST \in {P \in (SUBSET (1..Len(xs))) \X (SUBSET (1..Len(ys))) :
                   /\ Cardinality(P[1]) = Cardinality(P[2])
                   /\ Pick(SigsOf(xs), P[1]) = Pick(SigsOf(ys), P[2])}}

\* the pairings of greatest length
MaxAlignments(xs, ys) ==
    LET longest == LongestCommon(SigsOf(xs), SigsOf(ys))
    IN {al \in Alignments(xs, ys) : Len(al) = longest}

\* pairing al keeps later original blocks than pairing other (of the same
\* length): at the last pair in which their original blocks differ, al has
\* the later one
LaterOriginals(al, other) ==
    \E n \in 1..Len(al) :
        /\ \A m \in (n + 1)..Len(al) : al[m][1] = other[m][1]
        /\ al[n][1] > other[n][1]

RECURSIVE ChosenPairing(_, _, _, _)
\* the pairing the tie-break rule fixes for the first i blocks of xs and the
\* first j of ys, with the lengths of the longest pairings found by enumeration
ChosenPairing(xs, ys, i, j) ==
    IF i = 0 \/ j = 0 THEN <<>>
    ELSE IF SigsOf(xs)[i] = SigsOf(ys)[j]
         THEN Append(ChosenPairing(xs, ys, i - 1, j - 1), <<i - 1, j - 1>>)
    ELSE IF LongestCommon(SubSeq(SigsOf(xs), 1, i - 1), SubSeq(SigsOf(ys), 1, j))
              > LongestCommon(SubSeq(SigsOf(xs), 1, i), SubSeq(SigsOf(ys), 1, j - 1))
         THEN ChosenPairing(xs, ys, i - 1, j)
    ELSE ChosenPairing(xs, ys, i, j - 1)

\* C18: the pairs computeLCS returns are strictly increasing in the original
\* index and in the current index (no two pairs cross), so no block is in two
\* pairs; each pair joins blocks of the same signature.
C18_PairsMonotonic ==
    pc = "done" =>
        /\ \A n, m \in 1..Len(matches) :
              n < m => (matches[n][1] < matches[m][1] /\ matches[n][2] < matches[m][2])
        /\ \A n \in 1..Len(matches) :
              /\ matches[n][1] \in 0..(Len(originalBlocks.v) - 1)
              /\ matches[n][2] \in 0..(Len(currentBlocks.v) - 1)
              /\ SigsOf(originalBlocks.v)[matches[n][1] + 1]
                    = SigsOf(currentBlocks.v)[matches[n][2] + 1]

\* two pairs with a skipped block between them on one side
C18_Witness ==
    /\ pc = "done"
    /\ Len(matches) = 2
    /\ matches[2][1] - matches[1][1] # matches[2][2] - matches[1][2]

\* C19: the backtracking takes the pair of two last blocks of equal signature,
\* and otherwise skips the original block only when dp[i-1][j] > dp[i][j-1]
\* and the current block on ties, so the longest pairing returned is fixed (no
\* longest pairing keeps later original blocks); one original X against
\* current [X, X] is paired with the last X and the first X is reported added.
C19_TieBreakFixed ==
    /\ pc = "done" =>
          /\ matches = ChosenPairing(originalBlocks.v, currentBlocks.v,
                                     Len(originalBlocks.v), Len(currentBlocks.v))
          /\ LET longest == MaxAlignments(originalBlocks.v, currentBlocks.v)
             IN /\ matches \in longest
                /\ \A other \in longest : ~LaterOriginals(other, matches)
    /\ (/\ pc = "done"
        /\ Len(originalBlocks.v) = 1 /\ Len(currentBlocks.v) = 2
        /\ SigsOf(currentBlocks.v) = SigsOf(originalBlocks.v) \o SigsOf(originalBlocks.v)) =>
          /\ matches = <<(<<0, 1>>)>>
          /\ LET kind == originalBlocks.v[1]
                 X(id) == Block(id, kind.type, kind.content)
             IN computeBlockDiffs(Arr(<<X("a")>>), Arr(<<X("b"), X("c")>>))
                  = << [type |-> "unchanged", blockId |-> "c", position |-> 1],
                       [type |-> "added", blockId |-> "b",
                        currentText |-> getBlockText(kind), position |-> 0] >>

\* a tie at an unequal pair of last blocks: two longest pairings exist
C19_Witness ==
    /\ pc = "done"
    /\ Len(matches) >= 1
    /\ Cardinality(MaxAlignments(originalBlocks.v, currentBlocks.v)) >= 2
    /\ SigsOf(originalBlocks.v)[Len(originalBlocks.v)]
          # SigsOf(currentBlocks.v)[Len(currentBlocks.v)]
    /\ matches[Len(matches)][1] = Len(originalBlocks.v) - 1

-----------------------------------------------------------------------------
(* Properties of findDocPosition                                           *)

\* absolute offset of index `index` of the joined text of a block at `pos`
\* that lies in run r: the text of a block starts two tokens behind pos
OffsetInRun(blockNode, pos, r, index) ==
    (pos + 2 + RunRanges(blockNode)[r].start) + (index - RunRanges(blockNode)[r].start)

\* findDocPosition on a block with at least one run: the offset in the first
\* run that ends at or behind the index, the end of the last run for an index
\* beyond the text
PositionInRuns ==
    LET node == blockArg.node
        ranges == RunRanges(node)
        total == Len(getBlockText(node))
        holding == {r \in 1..Len(ranges) : textIndexArg <= ranges[r].end}
    IN IF textIndexArg > total
       THEN docPos = blockArg.pos + 2 + total
       ELSE docPos = OffsetInRun(node, blockArg.pos,
                                 CHOOSE r \in holding : \A q \in holding : r <= q,
                                 textIndexArg)

C20_RunsOrDocumentStart ==
    pc = "done" =>
        IF RunsOf(blockArg.node) = <<>> THEN docPos = 0 ELSE PositionInRuns

-----------------------------------------------------------------------------
(* Properties of getBlockText                                              *)

\* the text an item of a content array stands for: a string verbatim, an
\* object its text field, anything else nothing
TextOfItem(item) ==
    IF item.kind \in {"string", "object"} THEN item.text ELSE <<>>

\* the text a block stands for
TextOfBlock(blockOrNull) ==
    IF blockOrNull.null THEN <<>>
    ELSE IF blockOrNull.v.isArray
         THEN Join([k \in 1..Len(blockOrNull.v.content) |->
                      TextOfItem(blockOrNull.v.content[k])])
    ELSE blockOrNull.v.text

\* C14: getBlockText never fails: for a content array it concatenates the
\* items' texts (strings verbatim, objects by their text field, anything else,
\* null and non-object items included, as empty), for any other content it
\* returns the direct text field if any, else the empty string.
C14_GetBlockTextTotal ==
    pc = "done" =>
        /\ ~blockText.raised
        /\ blockText.value = TextOfBlock(blockArg)

\* the same for content arrays without a null or undefined item
C14_WithoutNullItems ==
    (/\ pc = "done"
     /\ blockArg.null \/ \A k \in 1..Len(blockArg.v.content) :
                             blockArg.v.content[k].kind # "null") =>
        /\ ~blockText.raised
        /\ blockText.value = TextOfBlock(blockArg)

-----------------------------------------------------------------------------
(* Properties of useSuggestMode                                            *)

\* the suspended rejectAll calls that go on in the step
RejectAllResumed == {a \in awaiting \ awaiting' : a.fn = "rejectAll"}

\* the rejectAll calls that get past the test of editor and snapshot in the step
RejectAllStarted == {a \in awaiting' \ awaiting : a.fn = "rejectAll"}

\* what a rejectAll call does: it starts only with an editor and the snapshot
\* its callback holds, and going on it replaces the document by the blocks
\* parsed from that snapshot, clears snapshot and pending text, sets mode
\* 'edit' and schedules a save with null snapshot and null pending text
RejectAllEffects ==
    /\ \A a \in RejectAllStarted :
          /\ ~currentBlocks.null
          /\ ~Falsy(closure.originalMarkdown)
          /\ a.markdown = closure.originalMarkdown
    /\ \A a \in RejectAllResumed :
          /\ currentBlocks' = Arr(tryParseMarkdownToBlocks(a.markdown.v, currentBlocks.v))
          /\ blocksToMarkdownLossy(currentBlocks'.v) = a.markdown.v
          /\ originalMarkdown' = NullArg
          /\ pendingMarkdown' = NullArg
          /\ mode' = "edit"
          /\ ~saveTimeout'.null
          /\ saveTimeout'.v.suggestModeOriginal = NullArg
          /\ saveTimeout'.v.suggestModePending = NullArg

\* the callback holds a snapshot: its originalMarkdown is set, as hasSuggestions
\* (!!originalMarkdown) of the same render reports
SnapshotHeld(c) == ~Falsy(c.originalMarkdown)

C17_AnyNonNullSnapshot ==
    [][/\ (~currentBlocks.null /\ ~closure.originalMarkdown.null) <=> rejectAllRuns(closure)
       /\ RejectAllEffects]_vars

Transitions == {"enterSuggestMode", "exitSuggestMode", "acceptAll", "rejectAll"}

\* the annotations of the file hold pending text only with a snapshot
PendingHasSnapshot(a) == ~a.suggestModePending.null => ~a.suggestModeOriginal.null

\* C15: the annotation write of a suggest-mode transition (enter, exit, accept,
\* reject) is persisted before any later edit, comment change or transition
\* is recorded: the write it scheduled leaves the timer only by being written
\* to the annotations of the file, and the persisted annotations never hold
\* pending text without a snapshot.
C15_TransitionWritePersisted ==
    [][/\ (~saveTimeout.null /\ saveTimeout.v.by \in Transitions /\ saveTimeout' # saveTimeout) =>
            /\ saveTimeout'.null
            /\ annotations'.suggestModeOriginal = saveTimeout.v.suggestModeOriginal
            /\ annotations'.suggestModePending = saveTimeout.v.suggestModePending
       /\ PendingHasSnapshot(annotations')]_vars

\* the persisted annotations never hold pending text without a snapshot
C15_PersistedPendingHasSnapshot == PendingHasSnapshot(annotations)

-----------------------------------------------------------------------------
(* Properties of buildInlineDecorations                                    *)

\* the decorations of a list of one kind, in order
OfKind(decos, kind) == SelectSeq(decos, LAMBDA x : x.kind = kind)

\* [start, end) of segment p of a word diff in the joined live text
SegmentInterval(segments, p) ==
    [start |-> SegmentStart(segments, p),
     end |-> SegmentStart(segments, p) + Len(segments[p].value)]

\* the runs of a block that the index interval iv overlaps, in order
OverlappedRuns(block, iv) ==
    SelectSeq([r \in 1..Len(RunsOf(block)) |-> r],
              LAMBDA r : /\ RunRanges(block)[r].end > iv.start
                         /\ RunRanges(block)[r].start < iv.end)

\* the part of interval iv inside run r of a block at pos, as document offsets
ClippedRange(block, pos, iv, r) ==
    [from |-> pos + 2 + Max(iv.start, RunRanges(block)[r].start),
     to |-> pos + 2 + Min(iv.end, RunRanges(block)[r].end)]

RECURSIVE InsertRanges(_, _, _, _)
\* the ranges due for the insert segments p, p+1, ...: per segment one clipped
\* range per overlapped run
InsertRanges(block, pos, segments, p) ==
    IF p > Len(segments) THEN <<>>
    ELSE (IF segments[p].type = "insert"
          THEN LET iv == SegmentInterval(segments, p)
                   rs == OverlappedRuns(block, iv)
               IN [n \in 1..Len(rs) |-> ClippedRange(block, pos, iv, rs[n])]
          ELSE <<>>)
         \o InsertRanges(block, pos, segments, p + 1)

\* total length of the ranges of a list
RECURSIVE RangeLengths(_, _)
RangeLengths(ranges, n) ==
    IF n = 0 THEN 0 ELSE RangeLengths(ranges, n - 1) + (ranges[n].to - ranges[n].from)

\* number of characters of the insert segments that exist in a live text of
\* `total` characters
RECURSIVE LiveInsertChars(_, _, _)
LiveInsertChars(segments, total, p) ==
    IF p = 0 THEN 0
    ELSE LiveInsertChars(segments, total, p - 1)
         + (IF segments[p].type = "insert"
            THEN Min(SegmentInterval(segments, p).end, total)
                   - Min(SegmentInterval(segments, p).start, total)
            ELSE 0)

\* C21: for every insert segment buildInlineDecorations emits exactly one
\* inline highlight per text run overlapped by the segment's index interval,
\* clipped to that run; every emitted range is non-empty and lies inside one
\* run, and the lengths of the ranges sum to the number of characters of the
\* insert segments that exist in the live text.
C21_InsertRangesClippedPerRun ==
    Built =>
        LET node == blockArg.node
            inline == OfKind(decorations, "inline")
            textNodes == collectTextNodes(node, blockArg.pos)
        IN /\ [n \in 1..Len(inline) |-> [from |-> inline[n].from, to |-> inline[n].to]]
                = InsertRanges(node, blockArg.pos, wordDiffs, 1)
           /\ \A n \in 1..Len(inline) :
                 /\ inline[n].from < inline[n].to
                 /\ \E r \in 1..Len(textNodes) :
                       /\ textNodes[r].from <= inline[n].from
                       /\ inline[n].to <= textNodes[r].to
           /\ RangeLengths(inline, Len(inline))
                = LiveInsertChars(wordDiffs, Len(getBlockText(node)), Len(wordDiffs))

\* an insert segment straddling two runs got one range in each
C21_Witness ==
    /\ Built
    /\ \E p \in 1..Len(wordDiffs) :
          /\ wordDiffs[p].type = "insert"
          /\ Len(OverlappedRuns(blockArg.node, SegmentInterval(wordDiffs, p))) >= 2
    /\ Len(OfKind(decorations, "inline")) >= 2

\* the anchors due for the delete segments, in order: the offset of the
\* segment's start index, the end of the text for an index behind it
DeleteAnchors(block, pos, segments) ==
    LET ps == SelectSeq([p \in 1..Len(segments) |-> p],
                        LAMBDA p : segments[p].type = "delete")
    IN [n \in 1..Len(ps) |->
           [pos |-> pos + 2 + Min(SegmentStart(segments, ps[n]), Len(getBlockText(block))),
            text |-> segments[ps[n]].value]]

\* the widgets of a decoration list as anchors
WidgetAnchors(decos) ==
    [n \in 1..Len(OfKind(decos, "widget")) |->
        [pos |-> OfKind(decos, "widget")[n].pos, text |-> OfKind(decos, "widget")[n].text]]

\* C22: the running index of buildInlineDecorations advances by the length of
\* every 'equal' and 'insert' segment and never by a 'delete' segment: each
\* delete segment gives one anchor (a widget, no range) at the offset of the
\* total length of the equal and insert segments before it.
C22_DeleteAnchorsAtRunningIndex ==
    Built => WidgetAnchors(decorations) = DeleteAnchors(blockArg.node, blockArg.pos, wordDiffs)

\* the same for blocks that have a text run
C22_WithRuns ==
    (Built /\ RunsOf(blockArg.node) # <<>>) =>
        WidgetAnchors(decorations) = DeleteAnchors(blockArg.node, blockArg.pos, wordDiffs)

\* a delete segment behind an insert and another delete segment
C22_Witness ==
    /\ Built
    /\ RunsOf(blockArg.node) # <<>>
    /\ Len(wordDiffs) = 3
    /\ wordDiffs[1].type = "delete" /\ wordDiffs[2].type = "insert"
    /\ wordDiffs[3].type = "delete"
    /\ Len(OfKind(decorations, "widget")) = 2

-----------------------------------------------------------------------------
(* Properties of computeBlockDiffs: kinds of diffs and counting            *)

\* the diffs that carry a given block id
DiffsOfBlock(id) == {n \in 1..Len(diffs) : diffs[n].blockId = id}

\* the block at index k was edited in place and got a new id: the old id is
\* gone from current, the new id is not in original, type or text differ
EditedWithNewId(k) ==
    /\ k <= Len(originalBlocks.v) /\ k <= Len(currentBlocks.v)
    /\ originalBlocks.v[k].id \notin IdsOf(currentBlocks.v)
    /\ currentBlocks.v[k].id \notin IdsOf(originalBlocks.v)
    /\ SigsOf(originalBlocks.v)[k] # SigsOf(currentBlocks.v)[k]

\* the signatures of a block sequence, as a set
SigSet(blocks) == {SigsOf(blocks)[k] : k \in 1..Len(blocks)}

\* neither the old nor the new content of the block at index k is the content
\* of a leftover block of the other side
ContentUnmatched(k) ==
    /\ SigsOf(originalBlocks.v)[k] \notin SigSet(LeftoverCurrent)
    /\ SigsOf(currentBlocks.v)[k] \notin SigSet(LeftoverOriginal)

\* the block at index k is reported as one 'deleted' diff (old id) plus one
\* 'added' diff (new id)
DeletedPlusAdded(k) ==
    /\ Cardinality(DiffsOfBlock(originalBlocks.v[k].id)) = 1
    /\ DiffsOfBlock(originalBlocks.v[k].id) \subseteq DiffsOfType("deleted")
    /\ Cardinality(DiffsOfBlock(currentBlocks.v[k].id)) = 1
    /\ DiffsOfBlock(currentBlocks.v[k].id) \subseteq DiffsOfType("added")

\* 'modified' diffs carry an id present in both sequences; none when no id is shared
ModifiedOnlyByIdentity ==
    /\ \A n \in DiffsOfType("modified") :
          diffs[n].blockId \in IdsOf(originalBlocks.v) \cap IdsOf(currentBlocks.v)
    /\ IdsOf(originalBlocks.v) \cap IdsOf(currentBlocks.v) = {}
          => DiffsOfType("modified") = {}

MatchingPairs ==
    LET original == originalBlocks.v
        current == currentBlocks.v
        byId == {<<i, j>> \in (1..Len(original)) \X (1..Len(current)) :
                    original[i].id = current[j].id}
        restOriginal == Unmatched(original, {p[1] : p \in byId})
        restCurrent == Unmatched(current, {p[2] : p \in byId})
        lcs == LcsMatches(original, current)
    IN byId \cup {<<restOriginal[lcs[n][1] + 1], restCurrent[lcs[n][2] + 1]>> :
                     n \in 1..Len(lcs)}

\* the diffs of the given types at a position
DiffsAt(types, position) ==
    {n \in 1..Len(diffs) : diffs[n].type \in types /\ diffs[n].position = position}

\* C30: for sequences with unique ids the matching of computeBlockDiffs is
\* one-to-one: every original block is matched to exactly one current block or
\* reported in exactly one 'deleted' diff, no current block is matched to two
\* original blocks, every match gives one 'unchanged' or 'modified' diff, and
\* #unchanged + #modified + #deleted = |original|,
\* #unchanged + #modified + #added = |current|.
C30_MatchingOneToOne ==
    Returned =>
        LET pairs == MatchingPairs
        IN /\ \A p, q \in pairs : (p[1] = q[1]) <=> (p[2] = q[2])
           /\ \A i \in 1..Len(originalBlocks.v) :
                 /\ Cardinality({p \in pairs : p[1] = i})
                       + Cardinality(DiffsAt({"deleted"}, i - 1)) = 1
                 /\ \A n \in DiffsAt({"deleted"}, i - 1) :
                       diffs[n].blockId = originalBlocks.v[i].id
           /\ \A j \in 1..Len(currentBlocks.v) :
                 /\ Cardinality({p \in pairs : p[2] = j})
                       = Cardinality(DiffsAt({"unchanged", "modified"}, j - 1))
                 /\ Cardinality(DiffsAt({"unchanged", "modified", "added"}, j - 1)) = 1
           /\ Cardinality(DiffsOfType("unchanged")) + Cardinality(DiffsOfType("modified"))
                 + Cardinality(DiffsOfType("deleted")) = Len(originalBlocks.v)
           /\ Cardinality(DiffsOfType("unchanged")) + Cardinality(DiffsOfType("modified"))
                 + Cardinality(DiffsOfType("added")) = Len(currentBlocks.v)

\* a match by id, a match by content and a deleted block at once
C30_Witness ==
    /\ Returned
    /\ \E p, q \in MatchingPairs :
          /\ originalBlocks.v[p[1]].id = currentBlocks.v[p[2]].id
          /\ originalBlocks.v[q[1]].id # currentBlocks.v[q[2]].id
    /\ DiffsOfType("deleted") # {}
    /\ DiffsOfType("modified") # {}

-----------------------------------------------------------------------------
(* Properties of the editor view: decorations and document versions        *)

\* the block diffs of the snapshot against the live document as it is now
LiveBlockDiffs == computeBlockDiffs(originalBlocks, currentBlocks)

\* the decoration set shows diffs (highlighting is enabled and diffs are stored)
ShowsDiffs == storage.enabled /\ Len(storage.blockDiffs.v) > 0

\* C25: decorations follow the live document as the user types: in every state
\* reached after a document change in which diffs are shown, the decoration
\* set is one built from the block diffs of the snapshot against that same
\* document version, never from diffs computed before the change.
C25_DecorationsFollowDocument ==
    (pc = "editor" /\ edits > 0 /\ ShowsDiffs) =>
        /\ storage.blockDiffs.v = LiveBlockDiffs
        /\ decorations \in buildDecorations(currentBlocks.v, LiveBlockDiffs)

\* the same for the states in which the effect of Editor was the last
\* transaction and ran on diffs the parent computed for the document as it is
C25_OnceEffectRan ==
    (pc = "editor" /\ edits > 0 /\ ShowsDiffs /\ tr.meta /\ ~effectPending
       /\ blockDiffsProp = Arr(LiveBlockDiffs)) =>
        /\ storage.blockDiffs.v = LiveBlockDiffs
        /\ decorations \in buildDecorations(currentBlocks.v, LiveBlockDiffs)

-----------------------------------------------------------------------------
(* Properties of useSuggestMode: mode and snapshot                         *)

\* hasSuggestions of the last render: !!originalMarkdown
hasSuggestions == ~Falsy(closure.originalMarkdown)

\* C26: after any sequence of enterSuggestMode, exitSuggestMode, acceptAll and
\* rejectAll the mode the hook returns is 'suggest' exactly when a snapshot is
\* held (hasSuggestions is true), also when the snapshot taken on entering is
\* the markdown of an empty document.
C26_SuggestIffSnapshot ==
    pc = "hook" => (closure.mode = "suggest" <=> hasSuggestions)

\* the same with any originalMarkdown other than null counted as a snapshot
C26_SuggestIffNotNull ==
    pc = "hook" => (closure.mode = "suggest" <=> ~closure.originalMarkdown.null)

-----------------------------------------------------------------------------
(* Properties of useSuggestMode: acceptAll and the file write              *)

\* the session state acceptAll clears
SessionState == <<mode, originalMarkdown, pendingMarkdown>>

\* a step in which the acceptAll call a leaves its await
AcceptAllLeftAwait(a) ==
    /\ pc = "hook"
    /\ a.fn = "acceptAll"
    /\ awaiting' = awaiting \ {a}

\* C24: acceptAll ends the session (snapshot and pending text cleared, mode
\* 'edit') only after the pending text has been written to the document file;
\* when the write is rejected by the server or fails the session state is
\* left unchanged.
C24_SessionEndsOnlyAfterWrite ==
    [][\A a \in awaiting :
          AcceptAllLeftAwait(a) /\ SessionState' # SessionState
             => fileContent' = a.markdown]_vars

\* the part of C24 for a call without pending text: nothing is awaited and
\* nothing changes
C24_NoPendingTextNoChange ==
    [][pc = "hook" /\ Falsy(closure.pendingMarkdown)
          => \A a \in awaiting' \ awaiting : a.fn # "acceptAll"]_vars

-----------------------------------------------------------------------------
(* Properties of useSuggestMode across files                               *)

\* the state values the load effect sets
LoadedState ==
    [comments |-> comments, originalMarkdown |-> originalMarkdown,
     pendingMarkdown |-> pendingMarkdown, mode |-> mode]

\* a step in which the callbacks of the load a run
LoadCallbacksRan(a) ==
    /\ pc = "files"
    /\ a.fn = "load"
    /\ a.settled # "no"
    /\ awaiting' = awaiting \ {a}

\* a step in which the server answers the GET of the load a
GetAnswered(a) ==
    /\ pc = "files"
    /\ a.fn = "load"
    /\ a.settled = "no"
    /\ \E b \in awaiting' \ awaiting : b.filename = a.filename /\ b.settled = "ok"

\* the data of the answer to the load a
AnswerOf(a) == (CHOOSE b \in awaiting' \ awaiting : b.filename = a.filename).data

\* C23: when loading the annotations of a file fails (network error or
\* unparsable response) the hook ends with no snapshot, no pending text, no
\* comments, mode 'edit' and loading false; and the server answers the GET
\* of annotations whose file is missing or not valid JSON with the default
\* {comments: [], suggestModeOriginal: null}.
C23_LoadFailureGivesDefaults ==
    [][\A a \in awaiting :
          /\ (LoadCallbacksRan(a) /\ a.settled \in {"unparsable", "networkError"})
                => /\ LoadedState' = [comments |-> 0, originalMarkdown |-> NullArg,
                                      pendingMarkdown |-> NullArg, mode |-> "edit"]
                   /\ loading' = FALSE
          /\ (GetAnswered(a) /\ annotations[a.filename].kind \in {"missing", "invalid"})
                => AnswerOf(a) = defaultAnnotations]_vars

\* the callbacks of a failed load have run: every file holds comments, none
\* was saved, and the hook has none after its loads
C23_Witness ==
    /\ pc = "files"
    /\ ~filename.null
    /\ awaiting = {}
    /\ \A f \in Files : annotations[f].kind = "json" /\ annotations[f].data.comments > 0
    /\ \A f \in Files : lastCall[f].null
    /\ comments = 0 /\ mode = "edit" /\ ~loading

\* no saveAnnotations call was made: the state is what the loads left and
\* the annotations files are those of the start
NoCallMade == \A f \in Files : lastCall[f].null

\* C27: after the filename changes, once every annotation load still in
\* flight has completed (in any order), the comments, snapshot, pending text
\* and mode of the hook are those loaded for the most recently selected
\* filename (the defaults when that load failed), never those of a
\* previously selected file.
C27_StateOfSelectedFile ==
    (pc = "files" /\ ~filename.null /\ awaiting = {} /\ NoCallMade)
       => LoadedState \in {loadThen(getAnnotations(annotations[filename.v])), loadCatch}

\* a load changes the state only when it is the load of the selected file
C27_StaleLoadIgnored ==
    [][\A a \in awaiting :
          (LoadCallbacksRan(a) /\ filename # Arr(a.filename))
             => LoadedState' = LoadedState]_vars

\* C28: at most one annotation save is pending at a time and each new
\* saveAnnotations call cancels the pending one; once calls stop (no save is
\* pending any more), the annotations persisted for a file equal the payload
\* of the last saveAnnotations call made for that file, also when the
\* filename is switched while a save for the previous file is pending.
C28_LastCallPersisted ==
    (pc = "files" /\ saveTimeout.null)
       => \A f \in Files :
             ~lastCall[f].null => annotations[f] = putAnnotations(lastCall[f].v)

\* the same while the filename stays what it was at the first call
C28_PendingSaveOfSameFile ==
    [][(pc = "files" /\ ~saveTimeout.null /\ saveTimeout' # saveTimeout)
          => \/ /\ saveTimeout'.null
                /\ annotations'[saveTimeout.v.filename] = putAnnotations(saveTimeout.v.body)
             \/ /\ ~saveTimeout'.null
                /\ saveTimeout'.v.filename = saveTimeout.v.filename]_vars

====
